---- MODULE Spec2Model ----
(***************************************************************************)
(* A model of chad-core's autonomy / approval control plane.               *)
(*                                                                         *)
(*   Part A  the approval store of apps/core_api/routers/approvals.py:     *)
(*           a Redis key per run_id with a store-native expiry, the four   *)
(*           endpoints and the create_pending_approval helper.  Every      *)
(*           `await` of a handler is a scheduling point, so a handler is   *)
(*           one action per awaited Redis command.                         *)
(*   Part B  the policy guard of chad_agents/policies/policy_guard.py and  *)
(*           chad_agents/policies/autonomy.py: pure functions on strings.  *)
(*   Part C  the webhook notifier of chad_notifications/webhooks.py: one   *)
(*           action per HTTP attempt and per backoff sleep.                *)
(*                                                                         *)
(* Time is in whole seconds.  Risk scores are in thousandths (Unit = 1.0). *)
(***************************************************************************)
EXTENDS Integers, Sequences, FiniteSets, TLC

VARIABLES
    now,        \* the clock, in seconds
    store,      \* Redis: run_id -> the JSON value of key approval:{run_id}, or NoKey
    expiry,     \* Redis: run_id -> the instant the key expires (0 when there is no key)
    calls,      \* the approve_run / reject_run invocations in flight, per slot
    lst,        \* the list_pending_approvals invocation in flight
    gen,        \* history: run_id -> number of create_pending_approval calls so far
    wins,       \* history: run_id -> number of decide calls answered 200 for the record
                \*          of the latest create_pending_approval
    last,       \* the event of the step that led to this state, with its response
    req,        \* Part B: the ActRequest under validation
    user,       \* Part B: the principal
    plan,       \* Part B: the ExecutionPlan built for the request
    pres,       \* Part B: the PolicyValidationResult, and the stage reached
    hook,       \* Part C: the WebhookNotifier and its _send_webhook call
    flows,      \* Part D: run_id -> the /act flow of the run: its stage and its job
    stream,     \* Part D: the live stream, a sequence of entries of string fields
    dead,       \* Part D: the dead-letter stream
    group,      \* Part D: the consumer group: the entries read and not acknowledged
    workers,    \* Part D: worker -> what the worker is doing, and with which entry
    retries,    \* Part D: the re-enqueues waiting out their retry delay
    postgres_store, \* Part D: run_id -> the saved status of the run, and its history
    projects,   \* Part E: the projects of the ProjectHealthData handed to the analyzer
    prioritized \* Part E: the list prioritize_projects returned

approvalVars == <<now, store, expiry, calls, lst, gen, wins, last>>
policyVars == <<req, user, plan, pres>>
webhookVars == <<hook>>
queueVars == <<flows, stream, dead, group, workers, retries, postgres_store>>
analyzerVars == <<projects, prioritized>>
vars == <<now, store, expiry, calls, lst, gen, wins, last, req, user, plan, pres, hook,
          flows, stream, dead, group, workers, retries, postgres_store,
          projects, prioritized>>

(***************************************************************************)
(* Bounds of the model.                                                    *)
(***************************************************************************)
MaxTicks == 1           \* the clock advances at most this many times
TickSeconds == 3600     \* by this many seconds each time
MaxCreates == 2         \* create_pending_approval calls per run_id

UserIds == {"alice", "bob"}         \* the principals who decide
Actors == {"carol"}                 \* the actors whose runs wait for approval
Timeouts == {1800, 7200}            \* timeout_seconds values passed by callers

Max(a, b) == IF a >= b THEN a ELSE b
Min(a, b) == IF a <= b THEN a ELSE b

(***************************************************************************)
(* Part A.  The approval store.                                            *)
(***************************************************************************)
Null == "null"          \* Python None, for the text fields
NoTime == -1            \* Python None, for the timestamp fields
NoKey == [status |-> "no-key"]      \* what redis.get answers for a key that does not exist
KeyMissingTtl == -2     \* what redis.ttl answers for a key that does not exist

\* What the /act endpoint passes on: goal, autonomy_level, risk_score, required_scopes.
ApprovalInputs ==
    { [goal |-> "Delete all Notion pages", autonomy_level |-> "L0_Ask",
       risk_score |-> 900, required_scopes |-> {"notion.read"}] }

\* The body of POST /approvals/{run_id}/approve and /reject.
ApprovalRequest == {[action |-> a, reason |-> "ok"] : a \in {"approve", "reject"}}

\* Whether key approval:{r} exists in a store at an instant.
Exists(st, ex, t, r) == st[r] # NoKey /\ t < ex[r]

\* redis.get(key): the value, or nothing once the key has expired.
RedisGet(r) == IF Exists(store, expiry, now, r) THEN store[r] ELSE NoKey

\* redis.ttl(key): the remaining seconds, -2 when the key does not exist.
RedisTtl(r) == IF Exists(store, expiry, now, r) THEN expiry[r] - now ELSE KeyMissingTtl

\* redis.keys("approval:*"): the keys that exist.
RedisKeys == {r \in DOMAIN store : Exists(store, expiry, now, r)}

IdleCall == [pc |-> "idle", kind |-> Null, run |-> Null, by |-> Null, data |-> NoKey,
             ttl |-> 0, gen |-> 0]
IdleList == [pc |-> "idle", keys |-> {}, pending |-> <<>>, snaps |-> {}]

\* The step just taken: the operation and which of its Redis commands, its run_id, the
\* call slot, the HTTP status answered (0: no answer yet, or not an endpoint) and the
\* answer's body.
Event(op, step, r, c, code, body) ==
    [op |-> op, step |-> step, run |-> r, call |-> c, code |-> code, body |-> body]

PendingApprovalItem(approval_data) ==
    [run_id |-> approval_data.run_id, actor |-> approval_data.actor,
     goal |-> approval_data.goal, autonomy_level |-> approval_data.autonomy_level,
     risk_score |-> approval_data.risk_score,
     required_scopes |-> approval_data.required_scopes,
     created_at |-> approval_data.created_at, expires_at |-> approval_data.expires_at]

\* The records that exist with status pending, as list items, in a store at an instant.
PendingIn(st, ex, t) ==
    {PendingApprovalItem(st[r]) :
        r \in {k \in DOMAIN st : Exists(st, ex, t, k) /\ st[k].status = "pending"}}

\* History kept for a list call in flight: every set of pending records the store
\* has held since the call began.
Observed(st, ex, t) ==
    IF lst.pc = "idle" THEN lst
    ELSE [lst EXCEPT !.snaps = @ \cup {PendingIn(st, ex, t)}]

InitApproval(runs, slots) ==
    /\ now = 0
    /\ store = [r \in runs |-> NoKey]
    /\ expiry = [r \in runs |-> 0]
    /\ calls = [c \in slots |-> IdleCall]
    /\ lst = IdleList
    /\ gen = [r \in runs |-> 0]
    /\ wins = [r \in runs |-> 0]
    /\ last = Event("init", "", Null, 0, 0, Null)

\* A variant of NewApprovalData that ignores timeout_seconds and stamps the default hour.
NewApprovalDataDefaultHour(r, actor, inp, created_at, timeout_seconds) ==
    [run_id |-> r, actor |-> actor, goal |-> inp.goal, status |-> "pending",
     autonomy_level |-> inp.autonomy_level, risk_score |-> inp.risk_score,
     required_scopes |-> inp.required_scopes,
     created_at |-> created_at, expires_at |-> created_at + 3600,
     approved_by |-> Null, approved_at |-> NoTime,
     rejected_by |-> Null, rejected_at |-> NoTime, reason |-> Null]

\* The approval_data dict of create_pending_approval.
NewApprovalData(r, actor, inp, created_at, timeout_seconds) ==
    [run_id |-> r, actor |-> actor, goal |-> inp.goal, status |-> "pending",
     autonomy_level |-> inp.autonomy_level, risk_score |-> inp.risk_score,
     required_scopes |-> inp.required_scopes,
     created_at |-> created_at, expires_at |-> created_at + timeout_seconds,
     approved_by |-> Null, approved_at |-> NoTime,
     rejected_by |-> Null, rejected_at |-> NoTime, reason |-> Null]

\* A variant of CreatedTtl that hands setex twice the timeout.
CreatedTtlDoubled(timeout_seconds) == 2 * timeout_seconds

\* The seconds handed to setex by create_pending_approval.
CreatedTtl(timeout_seconds) == timeout_seconds

\* create_pending_approval(redis, run_id, actor, goal, ..., timeout_seconds)
create_pending_approval(r, actor, inp, timeout_seconds) ==
    /\ gen[r] < MaxCreates
    /\ store' = [store EXCEPT ![r] = NewApprovalData(r, actor, inp, now, timeout_seconds)]
    /\ expiry' = [expiry EXCEPT ![r] = now + CreatedTtl(timeout_seconds)]
    /\ gen' = [gen EXCEPT ![r] = @ + 1]
    /\ wins' = [wins EXCEPT ![r] = 0]
    /\ last' = Event("create", "setex", r, 0, 0,
                     [was |-> RedisGet(r).status, timeout_seconds |-> timeout_seconds,
                      actor |-> actor, inp |-> inp])
    /\ lst' = Observed(store', expiry', now)
    /\ UNCHANGED <<now, calls>>
    /\ UNCHANGED <<policyVars, analyzerVars, webhookVars, queueVars>>

\* A request is served in the lowest free slot (the slots are interchangeable).
FreeSlot(c) == calls[c].pc = "idle" /\ \A d \in DOMAIN calls : d < c => calls[d].pc # "idle"

\* `if not data:` of approve_run, reject_run and get_approval_status.
KeyMissing(data) == data = NoKey

\* A variant of NotPending that only refuses an approved record.
NotPendingOnlyApproved(approval_data) == approval_data.status = "approved"

\* A variant of NotPending that only refuses a rejected record.
NotPendingOnlyRejected(approval_data) == approval_data.status = "rejected"

\* `if approval_data.get("status") != "pending":` of approve_run and reject_run.
NotPending(approval_data) == approval_data.status # "pending"

\* A variant of ApprovedData that records what the body's action field asks for.
ApprovedDataByAction(approval_data, u, request, t) ==
    IF request.action = "approve"
      THEN [approval_data EXCEPT !.status = "approved", !.approved_by = u,
                                 !.approved_at = t, !.reason = request.reason]
      ELSE [approval_data EXCEPT !.status = "rejected", !.rejected_by = u,
                                 !.rejected_at = t, !.reason = request.reason]

\* "Update approval data" of approve_run.
ApprovedData(approval_data, u, request, t) ==
    [approval_data EXCEPT !.status = "approved", !.approved_by = u, !.approved_at = t,
                          !.reason = request.reason]

\* "Update approval data" of reject_run.
RejectedData(approval_data, u, request, t) ==
    [approval_data EXCEPT !.status = "rejected", !.rejected_by = u, !.rejected_at = t,
                          !.reason = request.reason]

\* A variant of approve_run_get without the `if not data:` branch: a missing key is
\* answered like a record that is not pending.
approve_run_get_unchecked(c, r, request, u) ==
    LET data == RedisGet(r) IN
    /\ FreeSlot(c)
    /\ IF data.status # "pending"
         THEN /\ last' = Event("approve", "get", r, c, 400, data.status)
              /\ UNCHANGED calls
         ELSE /\ calls' = [calls EXCEPT ![c] =
                     [pc |-> "ttl", kind |-> "approve", run |-> r, by |-> u,
                      data |-> ApprovedData(data, u, request, now), ttl |-> 0, gen |-> gen[r]]]
              /\ last' = Event("approve", "get", r, c, 0, Null)
    /\ UNCHANGED <<now, store, expiry, lst, gen, wins>>
    /\ UNCHANGED <<policyVars, analyzerVars, webhookVars, queueVars>>

\* approve_run, up to the answer of `await redis.get(key)`: 404, 400, or the updated
\* approval_data held by the handler while it awaits redis.ttl.
approve_run_get(c, r, request, u) ==
    LET data == RedisGet(r) IN
    /\ FreeSlot(c)
    /\ IF KeyMissing(data)
         THEN /\ last' = Event("approve", "get", r, c, 404, Null)
              /\ UNCHANGED calls
       ELSE IF NotPending(data)
         THEN /\ last' = Event("approve", "get", r, c, 400, data.status)
              /\ UNCHANGED calls
       ELSE /\ calls' = [calls EXCEPT ![c] =
                   [pc |-> "ttl", kind |-> "approve", run |-> r, by |-> u,
                    data |-> ApprovedData(data, u, request, now), ttl |-> 0, gen |-> gen[r]]]
            /\ last' = Event("approve", "get", r, c, 0, Null)
    /\ UNCHANGED <<now, store, expiry, lst, gen, wins>>
    /\ UNCHANGED <<policyVars, analyzerVars, webhookVars, queueVars>>

\* reject_run, up to the answer of `await redis.get(key)`.
reject_run_get(c, r, request, u) ==
    LET data == RedisGet(r) IN
    /\ FreeSlot(c)
    /\ IF KeyMissing(data)
         THEN /\ last' = Event("reject", "get", r, c, 404, Null)
              /\ UNCHANGED calls
       ELSE IF NotPending(data)
         THEN /\ last' = Event("reject", "get", r, c, 400, data.status)
              /\ UNCHANGED calls
       ELSE /\ calls' = [calls EXCEPT ![c] =
                   [pc |-> "ttl", kind |-> "reject", run |-> r, by |-> u,
                    data |-> RejectedData(data, u, request, now), ttl |-> 0, gen |-> gen[r]]]
            /\ last' = Event("reject", "get", r, c, 0, Null)
    /\ UNCHANGED <<now, store, expiry, lst, gen, wins>>
    /\ UNCHANGED <<policyVars, analyzerVars, webhookVars, queueVars>>

\* `ttl = await redis.ttl(key)` of approve_run and of reject_run.
decide_ttl(c) ==
    /\ calls[c].pc = "ttl"
    /\ calls' = [calls EXCEPT ![c].pc = "setex", ![c].ttl = RedisTtl(calls[c].run)]
    /\ last' = Event(calls[c].kind, "ttl", calls[c].run, c, 0, Null)
    /\ UNCHANGED <<now, store, expiry, lst, gen, wins>>
    /\ UNCHANGED <<policyVars, analyzerVars, webhookVars, queueVars>>

\* A variant of DecidedTtl without the floor.
DecidedTtlNoFloor(ttl) == ttl

MinDecidedTtl == 3600
\* The seconds handed to setex by approve_run and reject_run: max(ttl, 3600).
DecidedTtl(ttl) == Max(ttl, MinDecidedTtl)

\* The ApprovalResponse built from a record.
ApprovalResponse(approval_data) ==
    [status |-> approval_data.status,
     approved_at |-> approval_data.approved_at, approved_by |-> approval_data.approved_by,
     rejected_at |-> approval_data.rejected_at, rejected_by |-> approval_data.rejected_by,
     reason |-> approval_data.reason]

\* `await redis.setex(key, max(ttl, 3600), json.dumps(approval_data))` of approve_run
\* and of reject_run, and the 200 answer that follows it.
decide_setex(c) ==
    LET r == calls[c].run
        data == calls[c].data
    IN  /\ calls[c].pc = "setex"
        /\ store' = [store EXCEPT ![r] = data]
        /\ expiry' = [expiry EXCEPT ![r] = now + DecidedTtl(calls[c].ttl)]
        /\ calls' = [calls EXCEPT ![c] = IdleCall]
        /\ wins' = [wins EXCEPT ![r] = IF calls[c].gen = gen[r] THEN @ + 1 ELSE @]
        /\ last' = Event(calls[c].kind, "setex", r, c, 200, ApprovalResponse(data))
        /\ lst' = Observed(store', expiry', now)
        /\ UNCHANGED <<now, gen>>
        /\ UNCHANGED <<policyVars, analyzerVars, webhookVars, queueVars>>

\* get_approval_status: one redis.get.
get_approval_status(r, u) ==
    LET data == RedisGet(r) IN
    /\ last' = IF KeyMissing(data)
                 THEN Event("status", "get", r, 0, 404, Null)
                 ELSE Event("status", "get", r, 0, 200, ApprovalResponse(data))
    /\ UNCHANGED <<now, store, expiry, calls, lst, gen, wins>>
    /\ UNCHANGED <<policyVars, analyzerVars, webhookVars, queueVars>>

\* A variant of ListFilter without the status filter.
ListFilterAnyStatus(pending, data) ==
    IF data # NoKey
      THEN Append(pending, PendingApprovalItem(data))
      ELSE pending

\* The loop body of list_pending_approvals for one key, given the answer of redis.get.
ListFilter(pending, data) ==
    IF data # NoKey /\ data.status = "pending"
      THEN Append(pending, PendingApprovalItem(data))
      ELSE pending

\* list_pending_approvals, up to the answer of `await redis.keys("approval:*")`; with no
\* key the loop is empty and the call answers at once.
list_pending_approvals_keys(u) ==
    LET keys == RedisKeys
        snap == {PendingIn(store, expiry, now)}
    IN  /\ lst.pc = "idle"
        /\ IF keys = {}
             THEN /\ lst' = lst
                  /\ last' = Event("list", "keys", Null, 0, 200,
                                   [items |-> <<>>, snaps |-> snap])
             ELSE /\ lst' = [pc |-> "reading", keys |-> keys, pending |-> <<>>, snaps |-> snap]
                  /\ last' = Event("list", "keys", Null, 0, 0, Null)
        /\ UNCHANGED <<now, store, expiry, calls, gen, wins>>
        /\ UNCHANGED <<policyVars, analyzerVars, webhookVars, queueVars>>

\* One `data = await redis.get(key)` of the loop, in the order Redis listed the keys
\* (any order); after the last key the call answers.
list_pending_approvals_get(key) ==
    LET pending == ListFilter(lst.pending, RedisGet(key))
        rest == lst.keys \ {key}
    IN  /\ lst.pc = "reading"
        /\ key \in lst.keys
        /\ IF rest = {}
             THEN /\ lst' = IdleList
                  /\ last' = Event("list", "get", key, 0, 200,
                                   [items |-> pending, snaps |-> lst.snaps])
             ELSE /\ lst' = [lst EXCEPT !.keys = rest, !.pending = pending]
                  /\ last' = Event("list", "get", key, 0, 0, Null)
        /\ UNCHANGED <<now, store, expiry, calls, gen, wins>>
        /\ UNCHANGED <<policyVars, analyzerVars, webhookVars, queueVars>>

\* Time passes; Redis drops the keys whose expiry has come.
Tick ==
    LET t == now + TickSeconds IN
    /\ now < MaxTicks * TickSeconds
    /\ now' = t
    /\ store' = [r \in DOMAIN store |-> IF Exists(store, expiry, t, r) THEN store[r] ELSE NoKey]
    /\ expiry' = [r \in DOMAIN store |-> IF Exists(store, expiry, t, r) THEN expiry[r] ELSE 0]
    /\ last' = Event("tick", "", Null, 0, 0, Null)
    /\ lst' = Observed(store', expiry', now')
    /\ UNCHANGED <<calls, gen, wins>>
    /\ UNCHANGED <<policyVars, analyzerVars, webhookVars, queueVars>>

InitPolicyIdle ==
    /\ req = Null
    /\ user = Null
    /\ plan = Null
    /\ pres = Null

\* No WebhookNotifier has been constructed.
InitWebhookIdle == hook = [pc |-> "none"]

\* The consumer group of a stream nobody has read: the number of entries delivered so
\* far, the entries delivered and not yet acknowledged, each with its consumer, and how
\* many times an entry has been reclaimed.
NoGroup == [last_delivered |-> 0, pending |-> {}, reclaims |-> 0]

\* No request has been submitted, the streams are empty and no worker runs.
InitQueueIdle ==
    /\ flows = <<>>
    /\ stream = <<>>
    /\ dead = <<>>
    /\ group = NoGroup
    /\ workers = <<>>
    /\ retries = {}
    /\ postgres_store = <<>>

\* No project data has been handed to the analyzer.
InitAnalyzerIdle ==
    /\ projects = <<>>
    /\ prioritized = <<>>

(***************************************************************************)
(* Spec: one run_id, two decide calls in flight, two deciding principals.  *)
(***************************************************************************)
Init ==
    /\ InitApproval({"run-1"}, {1, 2})
    /\ InitAnalyzerIdle
    /\ InitPolicyIdle
    /\ InitWebhookIdle
    /\ InitQueueIdle

Next ==
    \/ \E r \in DOMAIN store, actor \in Actors, inp \in ApprovalInputs, t \in Timeouts :
           create_pending_approval(r, actor, inp, t)
    \/ \E c \in DOMAIN calls, r \in DOMAIN store, request \in ApprovalRequest, u \in UserIds :
           approve_run_get(c, r, request, u)
    \/ \E c \in DOMAIN calls, r \in DOMAIN store, request \in ApprovalRequest, u \in UserIds :
           reject_run_get(c, r, request, u)
    \/ \E c \in DOMAIN calls : decide_ttl(c)
    \/ \E c \in DOMAIN calls : decide_setex(c)
    \/ \E r \in DOMAIN store, u \in UserIds : get_approval_status(r, u)
    \/ Tick

Spec == Init /\ [][Next]_vars

(***************************************************************************)
(* SpecList: two run_ids, one approve call and one list call in flight,    *)
(* one principal, one timeout.                                             *)
(***************************************************************************)
InitList ==
    /\ InitApproval({"run-1", "run-2"}, {1})
    /\ InitAnalyzerIdle
    /\ InitPolicyIdle
    /\ InitWebhookIdle
    /\ InitQueueIdle

NextList ==
    \/ \E r \in DOMAIN store, actor \in Actors, inp \in ApprovalInputs :
           create_pending_approval(r, actor, inp, 1800)
    \/ \E c \in DOMAIN calls, r \in DOMAIN store, request \in ApprovalRequest :
           approve_run_get(c, r, request, "alice")
    \/ \E c \in DOMAIN calls : decide_ttl(c)
    \/ \E c \in DOMAIN calls : decide_setex(c)
    \/ list_pending_approvals_keys("alice")
    \/ \E key \in DOMAIN store : list_pending_approvals_get(key)
    \/ Tick

SpecList == InitList /\ [][NextList]_vars
(***************************************************************************)
(* SpecDecide: one run_id, one decide call in flight; the deciding         *)
(* principals include the run's own actor, and each body carries a reason  *)
(* of its own, so that a stored reason tells which body was sent.          *)
(***************************************************************************)
DecideBodies ==
    { [action |-> "approve", reason |-> "Looks good to me"],
      [action |-> "reject", reason |-> "Too risky"] }

Deciders == UserIds \cup Actors

InitDecide ==
    /\ InitApproval({"run-1"}, {1})
    /\ InitAnalyzerIdle
    /\ InitPolicyIdle
    /\ InitWebhookIdle
    /\ InitQueueIdle

NextDecide ==
    \/ \E r \in DOMAIN store, actor \in Actors, inp \in ApprovalInputs, t \in Timeouts :
           create_pending_approval(r, actor, inp, t)
    \/ \E c \in DOMAIN calls, r \in DOMAIN store, request \in DecideBodies, u \in Deciders :
           approve_run_get(c, r, request, u)
    \/ \E c \in DOMAIN calls, r \in DOMAIN store, request \in DecideBodies, u \in Deciders :
           reject_run_get(c, r, request, u)
    \/ \E c \in DOMAIN calls : decide_ttl(c)
    \/ \E c \in DOMAIN calls : decide_setex(c)
    \/ Tick

SpecDecide == InitDecide /\ [][NextDecide]_vars

(***************************************************************************)
(* The claims about the approval store.                                    *)
(***************************************************************************)
DecideOps == {"approve", "reject"}

\* C1: decide is atomic per run_id: of the decide calls that overlap on one pending
\* record exactly one is answered 200, so the record of the latest
\* create_pending_approval is never decided by two calls.
C1_DecideAtomic == \A r \in DOMAIN store : wins[r] <= 1

\* C2 as stated: a decide call made after an earlier decide on the run_id's record has
\* completed is answered 400 (AlreadyDecided).
C2_SecondDecideIs400 ==
    (last.op \in DecideOps /\ last.step = "get" /\ wins[last.run] >= 1) => last.code = 400

\* C2 as amended: a decide call made after an earlier decide on the same record has
\* completed never goes on to write: it is answered 400 while the decided key still
\* exists and 404 once that key has expired, and it leaves the record, the key's expiry
\* and the other calls as they were.
C2_SecondDecideFails ==
    [][(last'.op \in DecideOps /\ last'.step = "get" /\ wins[last'.run] >= 1)
         => /\ last'.code = IF Exists(store, expiry, now, last'.run) THEN 400 ELSE 404
            /\ store' = store
            /\ expiry' = expiry
            /\ calls' = calls]_vars

\* C2's case: a decide call answered 400 after a decide on the record had completed.
C2_Witness ==
    /\ last.op \in DecideOps /\ last.step = "get" /\ last.code = 400
    /\ wins[last.run] >= 1
    /\ store[last.run].status \in {"approved", "rejected"}

\* C3: once the key of a record that nobody decided has expired, no key for that run_id
\* exists again unless create_pending_approval is called anew.
C3_ExpiredStaysNotFound ==
    [][\A r \in DOMAIN store :
         (gen[r] >= 1 /\ wins[r] = 0 /\ ~Exists(store, expiry, now, r) /\ gen'[r] = gen[r])
           => ~Exists(store', expiry', now', r)]_vars

\* C4: approve_run, reject_run and get_approval_status for a run_id whose key does not
\* exist answer 404 and leave the store, the expiries and the calls in flight unchanged.
C4_MissingIsNotFound ==
    [][(last'.op \in DecideOps \cup {"status"} /\ last'.step = "get"
          /\ ~Exists(store, expiry, now, last'.run))
         => /\ last'.code = 404
            /\ store' = store
            /\ expiry' = expiry
            /\ calls' = calls
            /\ ~Exists(store', expiry', now', last'.run)]_vars

\* C4's case: a decide call answered 404 for a run_id with no key.
C4_Witness ==
    /\ last.op \in DecideOps /\ last.step = "get" /\ last.code = 404
    /\ store[last.run] = NoKey

\* C5: the ttl a decide call reads is the key's remaining TTL at that instant, and its
\* setex re-persists the key with max(that ttl, 3600) seconds: never less than the
\* ttl read and never less than one hour.
C5_DecidedKeyTtl ==
    [][/\ (last'.op \in DecideOps /\ last'.step = "ttl")
            => calls'[last'.call].ttl =
                 IF Exists(store, expiry, now, last'.run)
                   THEN expiry[last'.run] - now ELSE KeyMissingTtl
       /\ (last'.op \in DecideOps /\ last'.step = "setex")
            => LET ttl == calls[last'.call].ttl
                   left == expiry'[last'.run] - now'
               IN  /\ left = IF ttl >= 3600 THEN ttl ELSE 3600
                   /\ left >= ttl
                   /\ left >= 3600
                   /\ store'[last'.run].status = IF last'.op = "approve" THEN "approved"
                                                                          ELSE "rejected"]_vars

\* C5's cases: a decide that kept a remaining TTL above one hour, and one that raised a
\* shorter one to the floor.
C5_Witness ==
    /\ last.op \in DecideOps /\ last.step = "setex" /\ last.code = 200
    /\ expiry[last.run] - now > 3600

\* C6 as stated: every key that exists expires at its record's expires_at.
C6_KeyExpiresAtExpiresAt ==
    \A r \in DOMAIN store :
        Exists(store, expiry, now, r) => expiry[r] = store[r].expires_at

\* C6 as amended: every key whose record is pending expires at the record's expires_at
\* (its expiry is the record's remaining TTL); a decided record's key does not, because
\* a decide re-persists it with max(ttl, 3600) seconds.
C6_PendingKeyExpiry ==
    \A r \in DOMAIN store :
        (Exists(store, expiry, now, r) /\ store[r].status = "pending")
          => /\ expiry[r] = store[r].expires_at
             /\ RedisTtl(r) = store[r].expires_at - now

\* C6's case: a pending record part of whose TTL has passed.
C6_Witness ==
    \E r \in DOMAIN store :
        /\ Exists(store, expiry, now, r) /\ store[r].status = "pending"
        /\ now > store[r].created_at

\* C7: after create_pending_approval the stored record is pending, carries the fields of
\* this call and no decision, has expires_at = now + ttl and the key expires in ttl
\* seconds, whatever was stored before.
C7_CreateOverwrites ==
    (last.op = "create")
      => LET rec == store[last.run]
             arg == last.body
         IN  /\ Exists(store, expiry, now, last.run)
             /\ rec.status = "pending"
             /\ rec.run_id = last.run
             /\ rec.actor = arg.actor
             /\ rec.goal = arg.inp.goal
             /\ rec.autonomy_level = arg.inp.autonomy_level
             /\ rec.risk_score = arg.inp.risk_score
             /\ rec.required_scopes = arg.inp.required_scopes
             /\ rec.created_at = now
             /\ rec.expires_at = now + arg.timeout_seconds
             /\ RedisTtl(last.run) = arg.timeout_seconds
             /\ rec.approved_by = Null /\ rec.approved_at = NoTime
             /\ rec.rejected_by = Null /\ rec.rejected_at = NoTime
             /\ rec.reason = Null

\* C7's case: create_pending_approval over a record that was already decided.
C7_Witness == last.op = "create" /\ last.body.was \in {"approved", "rejected"}

\* The run_ids of a list answer.
ListedRuns(items) == {items[i].run_id : i \in 1..Len(items)}
ListedItems(items) == {items[i] : i \in 1..Len(items)}

Unit == 1000            \* the risk score 1.0

UpperCase == "ABCDEFGHIJKLMNOPQRSTUVWXYZ"
LowerCase == "abcdefghijklmnopqrstuvwxyz"

\* str.lower() of one character.
LowerChar(ch) ==
    IF \E i \in 1..Len(UpperCase) : SubSeq(UpperCase, i, i) = ch
      THEN LET i == CHOOSE j \in 1..Len(UpperCase) : SubSeq(UpperCase, j, j) = ch
           IN  SubSeq(LowerCase, i, i)
      ELSE ch

RECURSIVE Lower(_)
\* str.lower()
Lower(s) ==
    IF s = "" THEN "" ELSE LowerChar(SubSeq(s, 1, 1)) \o Lower(SubSeq(s, 2, Len(s)))

\* `kw in s` on strings.
StrIn(kw, s) == \E i \in 1..(Len(s) - Len(kw) + 1) : SubSeq(s, i, i + Len(kw) - 1) = kw

\* s.startswith(prefix) and s.endswith(suffix)
StartsWith(s, prefix) == Len(prefix) <= Len(s) /\ SubSeq(s, 1, Len(prefix)) = prefix
EndsWith(s, suffix) ==
    Len(suffix) <= Len(s) /\ SubSeq(s, Len(s) - Len(suffix) + 1, Len(s)) = suffix

\* any(kw in s for kw in kws)
AnyKw(kws, s) == \E kw \in kws : StrIn(kw, s)

\* `x in xs` on a list.
InList(x, xs) == \E i \in 1..Len(xs) : xs[i] = x

AutonomyLevel == {"L0_Ask", "L1_Draft", "L2_ExecuteNotify", "L3_ExecuteSilent"}

\* PolicyGuard._extract_required_scopes: the scopes a goal asks for, deduplicated.
_extract_required_scopes(request) ==
    LET goal_lower == Lower(request.goal)
        notion == IF StrIn("notion", goal_lower)
                    THEN IF AnyKw({"create", "update", "write", "add"}, goal_lower)
                           THEN {"notion.write"} ELSE {"notion.read"}
                    ELSE {}
        github == IF StrIn("github", goal_lower) \/ StrIn("git", goal_lower)
                    THEN IF AnyKw({"create", "update", "push", "commit", "issue"}, goal_lower)
                           THEN {"github.write"} ELSE {"github.read"}
                    ELSE {}
        google == IF StrIn("google", goal_lower) \/ StrIn("gmail", goal_lower)
                       \/ StrIn("drive", goal_lower)
                    THEN IF AnyKw({"send", "create", "update", "write"}, goal_lower)
                           THEN {"google.write"} ELSE {"google.read"}
                    ELSE {}
        local == IF StrIn("summarize", goal_lower) \/ StrIn("analyze", goal_lower)
                   THEN {"local.summarize"} ELSE {}
        required == notion \cup github \cup google \cup local
    IN  IF required = {} THEN {"local.read"} ELSE required

\* PolicyGuard._create_execution_plan: one step per tool the goal names.
_create_execution_plan(request) ==
    LET goal_lower == Lower(request.goal)
        tools ==
            (IF StrIn("github", goal_lower) THEN <<"adapters_github.search_issues">> ELSE <<>>)
            \o (IF StrIn("notion", goal_lower) THEN <<"adapters_notion.create_page">> ELSE <<>>)
            \o (IF StrIn("summarize", goal_lower) THEN <<"local.summarize_text">> ELSE <<>>)
            \o (IF StrIn("google", goal_lower) \/ StrIn("gmail", goal_lower)
                  THEN <<"adapters_google.send_email">> ELSE <<>>)
        tools_used == IF tools = <<>> THEN <<"local.process">> ELSE tools
    IN  [steps |-> [i \in 1..Len(tools_used) |-> [tool |-> tools_used[i]]],
         tools_used |-> tools_used,
         required_scopes |-> _extract_required_scopes(request)]

\* A variant of calculate_tool_risk that tests the admin keywords before the
\* destructive ones.
calculate_tool_risk_admin_first(tool_name, capabilities) ==
    LET tool_lower == Lower(tool_name)
        by_name ==
            IF AnyKw({"admin", "configure", "setup", "migrate"}, tool_lower) THEN 900
            ELSE IF AnyKw({"delete", "remove", "drop", "destroy", "reset"}, tool_lower) THEN 700
            ELSE IF AnyKw({"create", "update", "write", "send", "post", "put"}, tool_lower)
              THEN 300
            ELSE IF AnyKw({"read", "get", "fetch", "search", "list", "query"}, tool_lower)
              THEN 100
            ELSE IF StartsWith(tool_lower, "local.") THEN 50
            ELSE 200
        risk ==
            IF InList("admin", capabilities) THEN Max(by_name, 900)
            ELSE IF InList("delete", capabilities) THEN Max(by_name, 700)
            ELSE IF InList("write", capabilities) THEN Max(by_name, 300)
            ELSE IF InList("read", capabilities) THEN Max(by_name, 100)
            ELSE by_name
    IN  Min(risk, Unit)

\* autonomy.calculate_tool_risk(tool_name, capabilities)
calculate_tool_risk(tool_name, capabilities) ==
    LET tool_lower == Lower(tool_name)
        by_name ==
            IF AnyKw({"delete", "remove", "drop", "destroy", "reset"}, tool_lower) THEN 700
            ELSE IF AnyKw({"admin", "configure", "setup", "migrate"}, tool_lower) THEN 900
            ELSE IF AnyKw({"create", "update", "write", "send", "post", "put"}, tool_lower)
              THEN 300
            ELSE IF AnyKw({"read", "get", "fetch", "search", "list", "query"}, tool_lower)
              THEN 100
            ELSE IF StartsWith(tool_lower, "local.") THEN 50
            ELSE 200
        risk ==
            IF InList("admin", capabilities) THEN Max(by_name, 900)
            ELSE IF InList("delete", capabilities) THEN Max(by_name, 700)
            ELSE IF InList("write", capabilities) THEN Max(by_name, 300)
            ELSE IF InList("read", capabilities) THEN Max(by_name, 100)
            ELSE by_name
    IN  Min(risk, Unit)

\* The risk one scope adds in PolicyGuard._calculate_scope_risk.
ScopeRisk(scope) ==
    IF scope = "*" \/ StartsWith(scope, "admin.") THEN 800
    ELSE IF StrIn(".write", scope) \/ StrIn(":write", scope) THEN 400
    ELSE IF StartsWith(scope, "github.") THEN 300
    ELSE IF StartsWith(scope, "notion.") \/ StartsWith(scope, "google.") THEN 200
    ELSE IF StrIn(".read", scope) \/ StrIn(":read", scope) THEN 100
    ELSE IF StartsWith(scope, "local.") THEN 50
    ELSE 150

RECURSIVE SumScopeRisk(_)
\* The loop of PolicyGuard._calculate_scope_risk.
SumScopeRisk(scopes) ==
    IF scopes = {} THEN 0
    ELSE LET scope == CHOOSE x \in scopes : TRUE
         IN  ScopeRisk(scope) + SumScopeRisk(scopes \ {scope})

\* PolicyGuard._calculate_scope_risk(scopes)
_calculate_scope_risk(scopes) == Min(SumScopeRisk(scopes), Unit)

RECURSIVE SumScopeRiskOfList(_)
\* The loop of PolicyGuard._calculate_scope_risk over a list that may repeat a scope.
SumScopeRiskOfList(scopes) ==
    IF scopes = <<>> THEN 0
    ELSE ScopeRisk(Head(scopes)) + SumScopeRiskOfList(Tail(scopes))

\* PolicyGuard._calculate_scope_risk(scopes), for a caller's list.
_calculate_scope_risk_of_list(scopes) == Min(SumScopeRiskOfList(scopes), Unit)

\* autonomy.get_user_trust_level(user)
get_user_trust_level(u) ==
    LET scopes == u.scopes
        wildcard_scopes ==
            {i \in 1..Len(scopes) : EndsWith(scopes[i], ".*") \/ EndsWith(scopes[i], ":*")}
    IN  IF InList("*", scopes) THEN 1000
        ELSE IF Cardinality(wildcard_scopes) >= 3 THEN 800
        ELSE IF Len(scopes) >= 5 THEN 700
        ELSE IF Len(scopes) >= 3 THEN 500
        ELSE IF Len(scopes) >= 1 THEN 300
        ELSE 0

RECURSIVE SumToolRisk(_)
\* The loop over plan.tools_used of PolicyGuard.assess_risk_score.
SumToolRisk(tools_used) ==
    IF tools_used = <<>> THEN 0
    ELSE calculate_tool_risk(Head(tools_used), <<>>) + SumToolRisk(Tail(tools_used))

\* A variant of TrustScaledRisk that scales by the whole trust level.
TrustScaledRiskFull(risk, trust_modifier) == (risk * (Unit - trust_modifier)) \div Unit

\* `risk = risk * (1 - trust_modifier * 0.2)` of PolicyGuard.assess_risk_score.
TrustScaledRisk(risk, trust_modifier) ==
    (risk * (Unit - (trust_modifier * 200) \div Unit)) \div Unit

\* A variant of assess_risk_score that adds the complexity before the trust scaling.
assess_risk_score_complexity_first(p, u) ==
    LET summed == SumToolRisk(p.tools_used) + _calculate_scope_risk(p.required_scopes)
        complexity_risk == IF Len(p.steps) > 1 THEN Min((Len(p.steps) - 1) * 100, 300) ELSE 0
        trusted == TrustScaledRisk(summed + complexity_risk, get_user_trust_level(u))
    IN  Max(Min(trusted, Unit), 0)

\* PolicyGuard.assess_risk_score(plan, user)
assess_risk_score(p, u) ==
    LET summed == SumToolRisk(p.tools_used) + _calculate_scope_risk(p.required_scopes)
        trust_modifier == get_user_trust_level(u)
        trusted == TrustScaledRisk(summed, trust_modifier)
        complexity_risk == IF Len(p.steps) > 1 THEN Min((Len(p.steps) - 1) * 100, 300) ELSE 0
    IN  Max(Min(trusted + complexity_risk, Unit), 0)

\* The risk one scope adds in autonomy.calculate_scope_risk.
AutonomyScopeRisk(scope) ==
    IF scope = "*" \/ StartsWith(scope, "admin.") THEN 800
    ELSE IF StrIn(".write", scope) \/ StrIn(":write", scope) THEN 400
    ELSE IF StartsWith(scope, "local.") THEN 50
    ELSE IF StartsWith(scope, "github.") THEN 300
    ELSE IF StartsWith(scope, "notion.") \/ StartsWith(scope, "google.") THEN 200
    ELSE IF StrIn(".read", scope) \/ StrIn(":read", scope) THEN 100
    ELSE 150

RECURSIVE SumAutonomyScopeRisk(_)
\* The loop of autonomy.calculate_scope_risk over its list.
SumAutonomyScopeRisk(scopes) ==
    IF scopes = <<>> THEN 0
    ELSE AutonomyScopeRisk(Head(scopes)) + SumAutonomyScopeRisk(Tail(scopes))

\* A variant of calculate_scope_risk without the cap.
calculate_scope_risk_uncapped(scopes) == SumAutonomyScopeRisk(scopes)

\* autonomy.calculate_scope_risk(scopes)
calculate_scope_risk(scopes) == Min(SumAutonomyScopeRisk(scopes), Unit)

risk_threshold_l3 == 300
risk_threshold_l2 == 600
risk_threshold_l1 == 800

\* A variant of determine_autonomy_level that tests dry_run before the global scope.
determine_autonomy_level_dry_first(request, u, risk_score) ==
    IF request.dry_run THEN "L2_ExecuteNotify"
    ELSE IF InList("*", u.scopes) /\ risk_score < risk_threshold_l1 THEN "L3_ExecuteSilent"
    ELSE IF risk_score < risk_threshold_l3 THEN "L3_ExecuteSilent"
    ELSE IF risk_score < risk_threshold_l2 THEN "L2_ExecuteNotify"
    ELSE IF risk_score < risk_threshold_l1 THEN "L1_Draft"
    ELSE "L0_Ask"

\* A variant of determine_autonomy_level that tests the lowest threshold before dry_run.
determine_autonomy_level_low_first(request, u, risk_score) ==
    IF InList("*", u.scopes) /\ risk_score < risk_threshold_l1 THEN "L3_ExecuteSilent"
    ELSE IF risk_score < risk_threshold_l3 THEN "L3_ExecuteSilent"
    ELSE IF request.dry_run THEN "L2_ExecuteNotify"
    ELSE IF risk_score < risk_threshold_l2 THEN "L2_ExecuteNotify"
    ELSE IF risk_score < risk_threshold_l1 THEN "L1_Draft"
    ELSE "L0_Ask"

\* A variant of determine_autonomy_level without the dry_run branch.
determine_autonomy_level_no_dry_run(request, u, risk_score) ==
    IF InList("*", u.scopes) /\ risk_score < risk_threshold_l1 THEN "L3_ExecuteSilent"
    ELSE IF risk_score < risk_threshold_l3 THEN "L3_ExecuteSilent"
    ELSE IF risk_score < risk_threshold_l2 THEN "L2_ExecuteNotify"
    ELSE IF risk_score < risk_threshold_l1 THEN "L1_Draft"
    ELSE "L0_Ask"

\* A variant of determine_autonomy_level whose comparisons admit the threshold itself.
determine_autonomy_level_inclusive(request, u, risk_score) ==
    IF InList("*", u.scopes) /\ risk_score < risk_threshold_l1 THEN "L3_ExecuteSilent"
    ELSE IF request.dry_run THEN "L2_ExecuteNotify"
    ELSE IF risk_score <= risk_threshold_l3 THEN "L3_ExecuteSilent"
    ELSE IF risk_score <= risk_threshold_l2 THEN "L2_ExecuteNotify"
    ELSE IF risk_score <= risk_threshold_l1 THEN "L1_Draft"
    ELSE "L0_Ask"

\* PolicyGuard.__init__(settings): the thresholds a guard loads from its settings.
PolicyGuard(settings) ==
    [risk_threshold_l3 |-> settings.RISK_THRESHOLD_L3,
     risk_threshold_l2 |-> settings.RISK_THRESHOLD_L2,
     risk_threshold_l1 |-> settings.RISK_THRESHOLD_L1]

\* The settings that leave every threshold at its default.
DefaultSettings ==
    [RISK_THRESHOLD_L3 |-> risk_threshold_l3, RISK_THRESHOLD_L2 |-> risk_threshold_l2,
     RISK_THRESHOLD_L1 |-> risk_threshold_l1]

\* A variant of determine_autonomy_level_self whose global-scope test admits the
\* critical risk scores instead of the others.
determine_autonomy_level_self_critical(self, request, u, risk_score) ==
    IF InList("*", u.scopes) /\ risk_score >= self.risk_threshold_l1 THEN "L3_ExecuteSilent"
    ELSE IF request.dry_run THEN "L2_ExecuteNotify"
    ELSE IF risk_score < self.risk_threshold_l3 THEN "L3_ExecuteSilent"
    ELSE IF risk_score < self.risk_threshold_l2 THEN "L2_ExecuteNotify"
    ELSE IF risk_score < self.risk_threshold_l1 THEN "L1_Draft"
    ELSE "L0_Ask"

\* PolicyGuard.determine_autonomy_level(self, request, user, risk_score)
determine_autonomy_level_self(self, request, u, risk_score) ==
    IF InList("*", u.scopes) /\ risk_score < self.risk_threshold_l1 THEN "L3_ExecuteSilent"
    ELSE IF request.dry_run THEN "L2_ExecuteNotify"
    ELSE IF risk_score < self.risk_threshold_l3 THEN "L3_ExecuteSilent"
    ELSE IF risk_score < self.risk_threshold_l2 THEN "L2_ExecuteNotify"
    ELSE IF risk_score < self.risk_threshold_l1 THEN "L1_Draft"
    ELSE "L0_Ask"

\* PolicyGuard.determine_autonomy_level(request, user, risk_score) of a guard with the
\* default thresholds.
determine_autonomy_level(request, u, risk_score) ==
    determine_autonomy_level_self(PolicyGuard(DefaultSettings), request, u, risk_score)

\* A variant of requires_approval that asks for approval at L0_Ask only.
requires_approval_l0_only(autonomy_level, risk_score) == autonomy_level = "L0_Ask"

\* PolicyGuard.requires_approval(autonomy_level, risk_score)
requires_approval(autonomy_level, risk_score) ==
    IF autonomy_level \in {"L0_Ask", "L1_Draft"} THEN TRUE ELSE FALSE

\* chad_agents.policies.scopes.scope_matches, as the specification words it: the granted
\* scope is the required one, or the wildcard `svc.*` of the required scope's service,
\* or the global wildcard `*`.
scope_matches(required, granted) ==
    \/ granted = required
    \/ granted = "*"
    \/ /\ EndsWith(granted, ".*")
       /\ StartsWith(required, SubSeq(granted, 1, Len(granted) - 1))

\* chad_agents.policies.scopes.check_scopes, as the specification words it: every
\* required scope is matched by a granted one.
check_scopes(required_scopes, user_scopes) ==
    \A required \in required_scopes :
        \E i \in 1..Len(user_scopes) : scope_matches(required, user_scopes[i])

\* PolicyGuard.check_scope_permissions(required_scopes, user_scopes)
check_scope_permissions(required_scopes, user_scopes) ==
    check_scopes(required_scopes, user_scopes)

\* A variant of _scope_matches_any with all() in place of any().
_scope_matches_all(required, granted_scopes) ==
    \A i \in 1..Len(granted_scopes) : scope_matches(required, granted_scopes[i])

\* PolicyGuard._scope_matches_any(required, granted_scopes)
_scope_matches_any(required, granted_scopes) ==
    \E i \in 1..Len(granted_scopes) : scope_matches(required, granted_scopes[i])

\* The reason of a denial; the code appends the missing scopes joined by ", ", which
\* the result also carries as missing_scopes.
MissingReason == "Missing required scopes"

\* PolicyGuard.validate_request(request, user): the PolicyValidationResult.
validate_request(request, u) ==
    LET required_scopes == _extract_required_scopes(request)
        has_permissions == check_scope_permissions(required_scopes, u.scopes)
        missing_scopes ==
            {scope \in required_scopes : ~_scope_matches_any(scope, u.scopes)}
        p == _create_execution_plan(request)
        risk_score == assess_risk_score(p, u)
        autonomy_level == determine_autonomy_level(request, u, risk_score)
    IN  IF ~has_permissions
          THEN [allowed |-> FALSE, autonomy_level |-> "L0_Ask", risk_score |-> Unit,
                requires_approval |-> TRUE, required_scopes |-> required_scopes,
                missing_scopes |-> missing_scopes, reason |-> MissingReason]
          ELSE [allowed |-> TRUE, autonomy_level |-> autonomy_level,
                risk_score |-> risk_score,
                requires_approval |-> requires_approval(autonomy_level, risk_score),
                required_scopes |-> required_scopes,
                missing_scopes |-> {}, reason |-> Null]

\* The goals of the requests: those of tests/test_policy.py, the specification's
\* example, and goals that name several services or none.
Goals ==
    { "Read some data from Notion",
      "Create a new Notion page with project updates",
      "create a new Notion page with meeting notes",
      "Delete all Notion pages",
      "Fetch latest Notion pages and analyze their content",
      "Delete GitHub repository and all issues",
      "Summarize the Gmail inbox and update Google Drive",
      "Commit the digital report",
      "Create a GitHub issue, update the Notion page and send a Gmail",
      "Test goal" }

\* The principals: the fixtures of tests/test_policy.py and others of each trust level.
Principals ==
    { [user_id |-> "admin", scopes |-> <<"*">>],
      [user_id |-> "standard", scopes |-> <<"notion.*", "github.read", "local.*">>],
      [user_id |-> "limited", scopes |-> <<"local.read">>],
      [user_id |-> "new", scopes |-> <<>>],
      [user_id |-> "reader", scopes |-> <<"notion.read">>],
      [user_id |-> "trusted", scopes |-> <<"notion.*", "github.*", "google.*", "local.*">>],
      [user_id |-> "many", scopes |-> <<"notion.read", "github.read", "google.read",
                                        "local.read", "local.summarize">>] }

ActRequest == {[actor |-> "carol", goal |-> g, dry_run |-> d] : g \in Goals, d \in BOOLEAN}

\* The risk scores handed to requires_approval directly: each threshold, its
\* neighbours and the ends of the range.
RiskScores == {0, 299, 300, 599, 600, 799, 800, Unit}

InitPolicy ==
    /\ InitApproval({"run-1"}, {1})
    /\ InitAnalyzerIdle
    /\ req \in ActRequest
    /\ user \in Principals
    /\ plan = Null
    /\ pres = Null
    /\ InitWebhookIdle
    /\ InitQueueIdle

\* A caller validates its request: POST /act runs PolicyGuard.validate_request.
Validate ==
    LET result == validate_request(req, user) IN
    /\ last.op = "init"
    /\ pres' = result
    /\ plan' = IF result.allowed THEN _create_execution_plan(req) ELSE Null
    /\ last' = Event("validate", "", Null, 0, 0, Null)
    /\ UNCHANGED <<analyzerVars, queueVars, hook, now, store, expiry, calls, lst, gen, wins, req, user>>

\* A caller asks PolicyGuard.requires_approval about a level and a risk score.
RequiresApproval(autonomy_level, risk_score) ==
    /\ last.op = "init"
    /\ pres' = [autonomy_level |-> autonomy_level, risk_score |-> risk_score,
                requires_approval |-> requires_approval(autonomy_level, risk_score)]
    /\ last' = Event("requires_approval", "", Null, 0, 0, Null)
    /\ UNCHANGED <<analyzerVars, queueVars, hook, now, store, expiry, calls, lst, gen, wins, req, user, plan>>

\* A caller asks PolicyGuard.determine_autonomy_level about its request and a risk score.
DetermineAutonomyLevel(risk_score) ==
    /\ last.op = "init"
    /\ pres' = [autonomy_level |-> determine_autonomy_level(req, user, risk_score),
                risk_score |-> risk_score]
    /\ last' = Event("determine", "", Null, 0, 0, Null)
    /\ UNCHANGED <<analyzerVars, queueVars, hook, now, store, expiry, calls, lst, gen, wins, req, user, plan>>

\* An ExecutionPlan of n steps for the given tools and scopes.
ExecutionPlan(n, tools_used, required_scopes) ==
    [steps |-> [i \in 1..n |-> [tool |-> "step"]], tools_used |-> tools_used,
     required_scopes |-> required_scopes]

\* The plans handed to assess_risk_score directly: those of the goals, and plans with
\* no step, with destructive and admin tools, and with more steps than the
\* complexity surcharge counts.
Plans ==
    {_create_execution_plan(r) : r \in ActRequest}
    \cup { ExecutionPlan(0, <<>>, {}),
           ExecutionPlan(1, <<"adapters_github.delete_issue">>, {"github.write"}),
           ExecutionPlan(1, <<"admin.configure_system">>, {"admin.config"}),
           ExecutionPlan(3, <<"adapters_notion.get_page">>, {"notion.read"}),
           ExecutionPlan(4, <<"local.process", "local.process", "local.process",
                              "local.process">>, {"local.read"}),
           ExecutionPlan(6, <<"local.process", "adapters_notion.get_page">>,
                         {"local.read", "custom"}) }

\* The lists handed to autonomy.calculate_scope_risk.
ScopeLists ==
    { <<>>, <<"admin.*">>, <<"*">>, <<"*", "*">>, <<"*", "admin.*">>, <<"local.read">>,
      <<"notion.read", "github.read">>, <<"notion.write">>, <<"custom">>,
      <<"notion.write", "github.write", "google.write">>, <<"admin.*", "notion.read">> }

\* A caller asks PolicyGuard.assess_risk_score about a plan for the principal.
AssessRiskScore(p) ==
    /\ last.op = "init"
    /\ plan' = p
    /\ pres' = [risk_score |-> assess_risk_score(p, user)]
    /\ last' = Event("assess", "", Null, 0, 0, Null)
    /\ UNCHANGED <<analyzerVars, queueVars, hook, now, store, expiry, calls, lst, gen, wins, req, user>>

\* A caller asks autonomy.calculate_scope_risk about a list of scopes.
CalculateScopeRisk(scopes) ==
    /\ last.op = "init"
    /\ pres' = [scopes |-> scopes, scope_risk |-> calculate_scope_risk(scopes)]
    /\ last' = Event("scope_risk", "", Null, 0, 0, Null)
    /\ UNCHANGED <<analyzerVars, queueVars, hook, now, store, expiry, calls, lst, gen, wins, req, user, plan>>

\* The tool names handed to autonomy.calculate_tool_risk: those of the docstring and of
\* tests/test_policy.py, names with keywords of two classes, `local.` names with and
\* without a keyword, a name in capitals and a name of no class.
ToolNames ==
    { "adapters_github.search_issues", "adapters_notion.create_page",
      "adapters_github.delete_issue", "admin.reset_database", "admin.configure_system",
      "local.summarize_text", "local.read_file", "local.write_file", "local.process",
      "adapters_notion.update_and_get", "Admin.Reset_Database", "custom.tool" }

\* The capability lists handed to autonomy.calculate_tool_risk.
CapabilityLists ==
    { <<>>, <<"read">>, <<"write">>, <<"delete">>, <<"admin">>, <<"read", "write">>,
      <<"read", "admin">>, <<"write", "delete">>, <<"execute">> }

\* A caller asks autonomy.calculate_tool_risk about a tool and its capabilities.
CalculateToolRisk(tool_name, capabilities) ==
    /\ last.op = "init"
    /\ pres' = [tool_name |-> tool_name, capabilities |-> capabilities,
                tool_risk |-> calculate_tool_risk(tool_name, capabilities)]
    /\ last' = Event("tool_risk", "", Null, 0, 0, Null)
    /\ UNCHANGED <<analyzerVars, queueVars, hook, now, store, expiry, calls, lst, gen, wins, req, user, plan>>

\* A caller asks PolicyGuard._calculate_scope_risk about a list of scopes.
GuardCalculateScopeRisk(scopes) ==
    /\ last.op = "init"
    /\ pres' = [scopes |-> scopes, guard_scope_risk |-> _calculate_scope_risk_of_list(scopes)]
    /\ last' = Event("guard_scope_risk", "", Null, 0, 0, Null)
    /\ UNCHANGED <<analyzerVars, queueVars, hook, now, store, expiry, calls, lst, gen, wins, req, user, plan>>

\* The values a deployment gives a threshold, and the settings made of them, in
\* ascending order or not.
ThresholdValues == {risk_threshold_l3, risk_threshold_l2, risk_threshold_l1}
ThresholdSettings ==
    [RISK_THRESHOLD_L3 : ThresholdValues, RISK_THRESHOLD_L2 : ThresholdValues,
     RISK_THRESHOLD_L1 : ThresholdValues]

\* A caller asks the PolicyGuard of some settings for the level of its request at a
\* risk score.
DetermineWithSettings(settings, risk_score) ==
    /\ last.op = "init"
    /\ pres' = [autonomy_level |->
                   determine_autonomy_level_self(PolicyGuard(settings), req, user, risk_score),
                risk_score |-> risk_score, settings |-> settings]
    /\ last' = Event("determine_settings", "", Null, 0, 0, Null)
    /\ UNCHANGED <<analyzerVars, queueVars, hook, now, store, expiry, calls, lst, gen, wins, req, user, plan>>

NextPolicy ==
    \/ Validate
    \/ \E settings \in ThresholdSettings, risk_score \in RiskScores :
           DetermineWithSettings(settings, risk_score)
    \/ \E scopes \in ScopeLists : GuardCalculateScopeRisk(scopes)
    \/ \E tool_name \in ToolNames, capabilities \in CapabilityLists :
           CalculateToolRisk(tool_name, capabilities)
    \/ \E p \in Plans : AssessRiskScore(p)
    \/ \E scopes \in ScopeLists : CalculateScopeRisk(scopes)
    \/ \E risk_score \in RiskScores : DetermineAutonomyLevel(risk_score)
    \/ \E autonomy_level \in AutonomyLevel, risk_score \in RiskScores :
           RequiresApproval(autonomy_level, risk_score)

SpecPolicy == InitPolicy /\ [][NextPolicy]_vars

(***************************************************************************)
(* The claims about the policy guard.                                      *)
(***************************************************************************)
\* The required scopes of a request that the principal's scopes do not satisfy.
Unsatisfied(request, u) ==
    {scope \in _extract_required_scopes(request) :
        \A i \in 1..Len(u.scopes) : ~scope_matches(scope, u.scopes[i])}

\* C9: a request with a required scope that the principal does not satisfy is denied:
\* allowed = false, L0_Ask, risk_score 1.0, requires_approval, and missing_scopes is
\* exactly the set of unsatisfied required scopes; the same request with the other
\* dry_run flag gets the same result.
C9_DeniedOnMissingScope ==
    (last.op = "validate" /\ Unsatisfied(req, user) # {})
      => /\ pres.allowed = FALSE
         /\ pres.autonomy_level = "L0_Ask"
         /\ pres.risk_score = Unit
         /\ pres.requires_approval = TRUE
         /\ pres.missing_scopes = Unsatisfied(req, user)
         /\ pres.required_scopes = _extract_required_scopes(req)
         /\ validate_request([req EXCEPT !.dry_run = ~@], user) = pres

\* C9's case: the principal with scopes ['notion.read'] asking to 'create a new Notion
\* page with meeting notes' is denied with 'notion.write' missing, though the plan
\* would have scored less than 1.0.
C9_Witness ==
    /\ last.op = "validate"
    /\ req.goal = "create a new Notion page with meeting notes"
    /\ user.scopes = <<"notion.read">>
    /\ pres.allowed = FALSE
    /\ pres.missing_scopes = {"notion.write"}
    /\ assess_risk_score(_create_execution_plan(req), user) < Unit

\* C10: in every result of validate_request, denied or allowed, and in every answer of
\* requires_approval for a level and a risk score, requires_approval is true exactly
\* when the level is L0_Ask or L1_Draft; no other risk score changes the answer.
C10_ApprovalIffAskOrDraft ==
    /\ (last.op \in {"validate", "requires_approval"})
         => (pres.requires_approval <=> pres.autonomy_level \in {"L0_Ask", "L1_Draft"})
    /\ (last.op = "requires_approval")
         => \A risk_score \in RiskScores :
                requires_approval(pres.autonomy_level, risk_score) = pres.requires_approval

\* C10's case: an allowed request placed at L1_Draft, which requires approval.
C10_Witness ==
    /\ last.op = "validate"
    /\ pres.allowed = TRUE
    /\ pres.autonomy_level = "L1_Draft"
    /\ pres.requires_approval = TRUE

\* The steps whose result carries a level chosen by determine_autonomy_level for a
\* risk score: a direct call, and a validate_request that allowed the request.
Levelled == last.op = "determine" \/ (last.op = "validate" /\ pres.allowed)

\* C11: a principal holding the global scope `*` gets L3_ExecuteSilent whenever the
\* risk score is below the L1 threshold, dry run or not; it gets another level only
\* at or above that threshold.
C11_GlobalScopeIsSilent ==
    (Levelled /\ InList("*", user.scopes))
      => /\ pres.risk_score < risk_threshold_l1 => pres.autonomy_level = "L3_ExecuteSilent"
         /\ pres.autonomy_level # "L3_ExecuteSilent" => pres.risk_score >= risk_threshold_l1

\* C11's case: a dry run of a global-scope principal just below the L1 threshold.
C11_Witness ==
    /\ last.op = "determine" /\ InList("*", user.scopes) /\ req.dry_run
    /\ pres.risk_score = risk_threshold_l1 - 1
    /\ pres.autonomy_level = "L3_ExecuteSilent"

\* C12 as stated: below the L3 threshold every principal, the global-scope one
\* included, gets L2_ExecuteNotify for a dry run and L3_ExecuteSilent otherwise.
C12_LowRiskDryRunIsNotify ==
    (Levelled /\ pres.risk_score < risk_threshold_l3)
      => pres.autonomy_level = IF req.dry_run THEN "L2_ExecuteNotify" ELSE "L3_ExecuteSilent"

\* C12 as amended: below the L3 threshold the level is L3_ExecuteSilent, except for a
\* dry run of a principal without the global scope, which gets L2_ExecuteNotify; a
\* global-scope principal gets L3_ExecuteSilent for a dry run too.
C12_LowRiskLevel ==
    (Levelled /\ pres.risk_score < risk_threshold_l3)
      => pres.autonomy_level =
           IF req.dry_run /\ ~InList("*", user.scopes) THEN "L2_ExecuteNotify"
                                                        ELSE "L3_ExecuteSilent"

\* C12's case: a low-risk dry run of a principal without the global scope.
C12_Witness ==
    /\ last.op = "determine" /\ req.dry_run /\ ~InList("*", user.scopes)
    /\ pres.risk_score < risk_threshold_l3
    /\ pres.autonomy_level = "L2_ExecuteNotify"

\* C13: a dry run never gets a level that requires approval: it gets L2_ExecuteNotify,
\* or L3_ExecuteSilent for a global-scope principal below the L1 threshold.
C13_DryRunNeverBlocks ==
    (Levelled /\ req.dry_run)
      => /\ pres.autonomy_level =
              IF InList("*", user.scopes) /\ pres.risk_score < risk_threshold_l1
                THEN "L3_ExecuteSilent" ELSE "L2_ExecuteNotify"
         /\ ~requires_approval(pres.autonomy_level, pres.risk_score)

\* C13's case: a dry run at the highest risk score.
C13_Witness ==
    /\ last.op = "determine" /\ req.dry_run /\ pres.risk_score = Unit
    /\ pres.autonomy_level = "L2_ExecuteNotify"

BaseRisk(p) == SumToolRisk(p.tools_used) + _calculate_scope_risk(p.required_scopes)

C17_ScopeRiskCapped ==
    (last.op = "scope_risk")
      => LET sum == SumAutonomyScopeRisk(pres.scopes) IN
         /\ pres.scope_risk = IF sum > 1000 THEN 1000 ELSE sum
         /\ pres.scope_risk <= 1000
         /\ pres.scopes \in {<<"admin.*">>, <<"*">>} => pres.scope_risk = 800

\* C17's case: two global/admin scopes, whose risks add up to 1.6.
C17_Witness ==
    /\ last.op = "scope_risk"
    /\ pres.scopes = <<"*", "admin.*">>
    /\ SumAutonomyScopeRisk(pres.scopes) > Unit
    /\ pres.scope_risk = Unit

(***************************************************************************)
(* Part C.  The webhook notifier.                                          *)
(*                                                                         *)
(* hook holds the notifier's fields, the position of its _send_webhook     *)
(* call, the outcome of every `await client.post` so far with the second   *)
(* at which it was made, and every `await asyncio.sleep` so far.           *)
(***************************************************************************)
MaxRetries == 4         \* notifiers are constructed with max_retries in 0..MaxRetries

BackoffBases == {1, 2, 3}       \* the backoff_base values notifiers are constructed with

\* What one `await client.post(...)` can end in: a response with a status code, or one
\* of the three exceptions the loop catches.
PostOutcomes ==
    {[kind |-> "response", status_code |-> c] : c \in {200, 204, 301, 500}}
    \cup {[kind |-> k, status_code |-> 0] :
             k \in {"TimeoutException", "RequestError", "Exception"}}

\* A variant of Delivered that accepts status 200 only.
DeliveredOnly200(outcome) == outcome.kind = "response" /\ outcome.status_code = 200

\* `if response.status_code >= 200 and response.status_code < 300:`
Delivered(outcome) ==
    outcome.kind = "response" /\ outcome.status_code >= 200 /\ outcome.status_code < 300

\* A variant of Backoff that waits for the next attempt's power.
BackoffNextPower(backoff_base, attempt) == backoff_base ^ (attempt + 1)

\* `delay = self.backoff_base ** attempt`
Backoff(backoff_base, attempt) == backoff_base ^ attempt

\* WebhookNotifier.__init__(timeout_seconds, max_retries, backoff_base)
WebhookNotifier(max_retries, backoff_base) ==
    [pc |-> "idle", event |-> Null, max_retries |-> max_retries,
     backoff_base |-> backoff_base, attempt |-> 0, elapsed |-> 0,
     posts |-> <<>>, sleeps |-> <<>>, returned |-> Null]

InitWebhook ==
    /\ InitApproval({"run-1"}, {1})
    /\ InitAnalyzerIdle
    /\ InitPolicyIdle
    /\ hook \in {WebhookNotifier(m, b) : m \in 0..MaxRetries, b \in BackoffBases}
    /\ InitQueueIdle

\* _send_webhook entered with a payload: `for attempt in range(self.max_retries)`
\* either starts attempt 0 or, with nothing to iterate, falls through to `return False`.
_send_webhook(payload) ==
    IF hook.max_retries > 0
      THEN [hook EXCEPT !.pc = "post", !.event = payload.event]
      ELSE [hook EXCEPT !.pc = "done", !.event = payload.event, !.returned = "False"]

send_completion_webhook ==
    /\ hook.pc = "idle"
    /\ hook' = _send_webhook([event |-> "run.completed", status |-> "completed"])
    /\ UNCHANGED <<approvalVars, policyVars, analyzerVars, queueVars>>

send_failure_webhook ==
    /\ hook.pc = "idle"
    /\ hook' = _send_webhook([event |-> "run.failed", status |-> "failed"])
    /\ UNCHANGED <<approvalVars, policyVars, analyzerVars, queueVars>>

send_status_update_webhook ==
    /\ hook.pc = "idle"
    /\ hook' = _send_webhook([event |-> "run.status_update", status |-> "running"])
    /\ UNCHANGED <<approvalVars, policyVars, analyzerVars, queueVars>>

\* A variant of Caught without the final `except Exception` clause.
CaughtTransportOnly(outcome) == outcome.kind \in {"TimeoutException", "RequestError"}

\* The except clauses of the loop body: `except httpx.TimeoutException`,
\* `except httpx.RequestError`, `except Exception`.  An exception none of them names
\* leaves _send_webhook.
Caught(outcome) == outcome.kind \in {"TimeoutException", "RequestError", "Exception"}

\* One pass of the loop body from `await client.post` to the next await or return: the
\* request ends in `outcome`; a 2xx returns True; otherwise the failure is logged and
\* the call sleeps, unless this was the last attempt, after which it returns False.
Post(outcome) ==
    LET posts == Append(hook.posts, [outcome |-> outcome, at |-> hook.elapsed]) IN
    /\ hook.pc = "post"
    /\ hook' =
         IF Delivered(outcome)
           THEN [hook EXCEPT !.pc = "done", !.posts = posts, !.returned = "True"]
         ELSE IF outcome.kind # "response" /\ ~Caught(outcome)
           THEN [hook EXCEPT !.pc = "raised", !.posts = posts]
         ELSE IF hook.attempt < hook.max_retries - 1
           THEN [hook EXCEPT !.pc = "sleep", !.posts = posts,
                             !.sleeps = Append(@, [after |-> hook.attempt,
                                                   delay |-> Backoff(hook.backoff_base,
                                                                     hook.attempt)])]
         ELSE [hook EXCEPT !.pc = "done", !.posts = posts, !.returned = "False"]
    /\ UNCHANGED <<approvalVars, policyVars, analyzerVars, queueVars>>

\* `await asyncio.sleep(delay)` returns after delay seconds; the loop goes on to the
\* next attempt.
Sleep ==
    /\ hook.pc = "sleep"
    /\ hook' = [hook EXCEPT !.pc = "post", !.attempt = @ + 1,
                            !.elapsed = @ + hook.sleeps[Len(hook.sleeps)].delay]
    /\ UNCHANGED <<approvalVars, policyVars, analyzerVars, queueVars>>

NextWebhook ==
    \/ send_completion_webhook
    \/ send_failure_webhook
    \/ send_status_update_webhook
    \/ \E outcome \in PostOutcomes : Post(outcome)
    \/ Sleep

SpecWebhook == InitWebhook /\ [][NextWebhook]_vars

\* The event loop resumes a coroutine whose await has completed: a started request
\* ends (in a response, or in the timeout the request is given) and a sleep returns.
FairWebhook ==
    /\ SpecWebhook
    /\ WF_vars(\E outcome \in PostOutcomes : Post(outcome))
    /\ WF_vars(Sleep)

(***************************************************************************)
(* The claims about the webhook notifier.                                  *)
(***************************************************************************)
\* An attempt that got a 2xx response.
Got2xx(post) ==
    post.outcome.kind = "response" /\ post.outcome.status_code \in 200..299

\* The status codes of the attempts so far (0 for an attempt that raised).
StatusCodes == [i \in 1..Len(hook.posts) |-> hook.posts[i].outcome.status_code]

\* C18: the attempts are made one after another; no attempt follows one that got a 2xx,
\* which returns True; False is returned only after exactly max_retries attempts none of
\* which got a 2xx.
C18_StopsAtFirst2xx ==
    LET n == Len(hook.posts) IN
    /\ n <= Max(hook.max_retries, 0)
    /\ \A i \in 1..(n - 1) : ~Got2xx(hook.posts[i]) /\ hook.posts[i].at <= hook.posts[i + 1].at
    /\ (n >= 1 /\ Got2xx(hook.posts[n])) => (hook.pc = "done" /\ hook.returned = "True")
    /\ hook.returned = "True" => (n >= 1 /\ Got2xx(hook.posts[n]))
    /\ hook.returned = "False"
         => (n = hook.max_retries /\ \A i \in 1..n : ~Got2xx(hook.posts[i]))
    /\ (n = hook.max_retries /\ hook.pc # "idle") => hook.returned \in {"True", "False"}

\* C18's case: responses 500, 500, 200 to a notifier with max_retries above 3: True
\* after exactly three attempts.
C18_Witness ==
    /\ hook.pc = "done"
    /\ hook.max_retries > 3
    /\ StatusCodes = <<500, 500, 200>>
    /\ hook.returned = "True"

\* C19: a call that returns False has made at least one HTTP POST.
C19_AtLeastOneAttempt == hook.returned = "False" => Len(hook.posts) >= 1

\* C20: after failed attempt k (from 0), whatever the failure, the call sleeps
\* backoff_base^k seconds before attempt k + 1; it does not sleep after a 2xx or after
\* the last attempt; with base 2 the delays are 1, 2, 4, ... and strictly increase.
C20_BackoffSchedule ==
    LET n == Len(hook.posts)
        w == Len(hook.sleeps)
        b == hook.backoff_base
    IN  /\ \A k \in 1..w :
               /\ hook.sleeps[k].after = k - 1
               /\ hook.sleeps[k].delay = b ^ (k - 1)
               /\ ~Got2xx(hook.posts[k])
               /\ k < hook.max_retries
        /\ \A i \in 1..n : (~Got2xx(hook.posts[i]) /\ i < hook.max_retries) => w >= i
        /\ \A i \in 1..(n - 1) : hook.posts[i + 1].at - hook.posts[i].at = b ^ (i - 1)
        /\ hook.pc = "done" => w = Max(n - 1, 0)
        /\ b = 2 => /\ w >= 1 => hook.sleeps[1].delay = 1
                    /\ \A k \in 1..(w - 1) : hook.sleeps[k + 1].delay = 2 * hook.sleeps[k].delay
                    /\ \A k \in 1..(w - 1) : hook.sleeps[k].delay < hook.sleeps[k + 1].delay

\* C20's case: a timeout, a transport error, an unexpected exception and a 500 in a
\* row with base 2: sleeps of 1, 2 and 4 seconds and none after the fourth attempt.
C20_Witness ==
    /\ hook.pc = "done" /\ hook.returned = "False"
    /\ hook.backoff_base = 2 /\ hook.max_retries = 4
    /\ [i \in 1..Len(hook.posts) |-> hook.posts[i].outcome.kind]
         = <<"TimeoutException", "RequestError", "Exception", "response">>
    /\ [k \in 1..Len(hook.sleeps) |-> hook.sleeps[k].delay] = <<1, 2, 4>>
    /\ hook.elapsed = 7

\* C21: _send_webhook never raises past its boundary: whatever each attempt ends in
\* (2xx, non-2xx, timeout, transport error, any other exception) the call ends in a
\* return of True or False; an attempt that raised uses up one attempt of the budget
\* like any other failed attempt; and a call that was entered returns.
C21_NeverRaises ==
    /\ [](/\ hook.pc \in {"idle", "post", "sleep", "done"}
          /\ hook.pc = "done" => hook.returned \in {"True", "False"}
          /\ hook.pc # "done" => hook.returned = Null
          /\ hook.pc = "post" => Len(hook.posts) = hook.attempt
          /\ hook.pc \in {"sleep", "done"} /\ Len(hook.posts) > 0
               => Len(hook.posts) = hook.attempt + 1
          /\ Len(hook.posts) <= Max(hook.max_retries, 0)
          /\ hook.returned = "False" => Len(hook.posts) = hook.max_retries)
    /\ (hook.pc \in {"post", "sleep"}) ~> (hook.pc = "done")

\* C21's case: three attempts that each raised (the last one an exception that is
\* neither a timeout nor a transport error) used up a budget of three: False.
C21_Witness ==
    /\ hook.pc = "done" /\ hook.returned = "False"
    /\ hook.max_retries = 3
    /\ [i \in 1..Len(hook.posts) |-> hook.posts[i].outcome.kind]
         = <<"TimeoutException", "RequestError", "Exception">>

(***************************************************************************)
(* Part D.  The /act flow, the queue producer and the queue worker.  The   *)
(* flow, QueueProducer (apps/core_api/deps.py) and QueueWorker             *)
(* (apps/queue_worker/main.py) are modelled as the specification words     *)
(* them (sections 2, 4.3, 4.4 and 5) and as tests/test_queue.py calls      *)
(* them; check_approval_status, validate_request and the notifier are the  *)
(* code's.                                                                  *)
(***************************************************************************)
Digits == "0123456789"

\* Python str(n) of an int n >= 0.
RECURSIVE str(_)
str(n) ==
    IF n < 10 THEN SubSeq(Digits, n + 1, n + 1)
    ELSE str(n \div 10) \o SubSeq(Digits, (n % 10) + 1, (n % 10) + 1)

DigitValue(ch) == CHOOSE d \in 0..9 : SubSeq(Digits, d + 1, d + 1) = ch

\* Python int(s) of a string of decimal digits.
RECURSIVE int(_)
int(s) ==
    IF Len(s) = 1 THEN DigitValue(s)
    ELSE 10 * int(SubSeq(s, 1, Len(s) - 1)) + DigitValue(SubSeq(s, Len(s), Len(s)))

\* Python str(b) of a bool.
str_bool(b) == IF b THEN "True" ELSE "False"

\* The context dicts of the jobs, as sequences of key/value pairs.
Contexts == {<<>>, << <<"key", "value">> >>}

\* json.dumps(context)
RECURSIVE json_dumps_items(_)
json_dumps_items(context) ==
    IF context = <<>> THEN ""
    ELSE "\"" \o context[1][1] \o "\": \"" \o context[1][2] \o "\""
         \o (IF Len(context) > 1 THEN ", " ELSE "") \o json_dumps_items(Tail(context))

json_dumps(context) == "{" \o json_dumps_items(context) \o "}"

\* json.loads(text) of a context that json.dumps wrote.
json_loads(text) == CHOOSE context \in Contexts : json_dumps(context) = text

\* The stream's message identifier of its n-th entry.
MessageId(n) == str(n) \o "-0"

\* redis.xadd(stream_name, fields): the entry is appended at the tail.
xadd(s, fields) == Append(s, [id |-> MessageId(Len(s) + 1), fields |-> fields])

\* The time QueueProducer.enqueue stamps on an entry.
CreatedAt(t) == "t+" \o str(t)

\* QueueProducer.enqueue(run_id, goal, actor, autonomy_level, context, max_steps,
\* dry_run, webhook_url): the fields handed to xadd, every one a string.
enqueue_fields(job, t) ==
    [run_id |-> job.run_id, goal |-> job.goal, actor |-> job.actor,
     autonomy_level |-> job.autonomy_level, context |-> json_dumps(job.context),
     max_steps |-> str(job.max_steps), dry_run |-> str_bool(job.dry_run),
     webhook_url |-> job.webhook_url, retry_count |-> "0", created_at |-> CreatedAt(t)]

\* A variant of check_approval_status that answers "approved" for a missing key.
check_approval_status_missing_approved(run_id) ==
    LET data == RedisGet(run_id) IN
    IF data = NoKey THEN "approved" ELSE data.status

\* check_approval_status(redis, run_id): None for a missing key, else the status.
check_approval_status(run_id) ==
    LET data == RedisGet(run_id) IN
    IF data = NoKey THEN Null ELSE data.status

DefaultTimeoutSeconds == 3600

NewFlow == [pc |-> "new", requires_approval |-> FALSE, job |-> Null]

\* The job POST /act makes of a request and its validation result.
FlowJob(r, request, result) ==
    [run_id |-> r, goal |-> request.goal, actor |-> request.actor,
     autonomy_level |-> result.autonomy_level, context |-> <<>>, max_steps |-> 10,
     dry_run |-> request.dry_run, webhook_url |-> ""]

\* POST /act: the request is validated; a denied request ends there; a request that
\* requires approval gets a pending approval record and its flow suspends; any other
\* request is enqueued at once.
act(r) ==
    LET result == validate_request(req, user)
        job == FlowJob(r, req, result)
        inp == [goal |-> req.goal, autonomy_level |-> result.autonomy_level,
                risk_score |-> result.risk_score,
                required_scopes |-> result.required_scopes]
    IN  /\ flows[r].pc = "new"
        /\ pres' = result
        /\ IF ~result.allowed
             THEN /\ flows' = [flows EXCEPT ![r] = [pc |-> "denied",
                                   requires_approval |-> TRUE, job |-> job]]
                  /\ last' = Event("act", "", r, 0, 403, Null)
                  /\ UNCHANGED <<store, expiry, gen, wins, lst, stream>>
           ELSE IF result.requires_approval
             THEN /\ flows' = [flows EXCEPT ![r] = [pc |-> "suspended",
                                   requires_approval |-> TRUE, job |-> job]]
                  /\ store' = [store EXCEPT ![r] =
                         NewApprovalData(r, req.actor, inp, now, DefaultTimeoutSeconds)]
                  /\ expiry' = [expiry EXCEPT ![r] = now + CreatedTtl(DefaultTimeoutSeconds)]
                  /\ gen' = [gen EXCEPT ![r] = @ + 1]
                  /\ wins' = [wins EXCEPT ![r] = 0]
                  /\ lst' = Observed(store', expiry', now)
                  /\ last' = Event("act", "", r, 0, 202, Null)
                  /\ UNCHANGED stream
           ELSE /\ flows' = [flows EXCEPT ![r] = [pc |-> "enqueued",
                                 requires_approval |-> FALSE, job |-> job]]
                /\ stream' = xadd(stream, enqueue_fields(job, now))
                /\ last' = Event("act", "", r, 0, 200, Null)
                /\ UNCHANGED <<store, expiry, gen, wins, lst>>
        /\ UNCHANGED <<now, calls, req, user, plan, hook, analyzerVars>>
        /\ UNCHANGED <<dead, group, workers, retries, postgres_store>>

\* A suspended flow learns its record's fate from check_approval_status: approved, and
\* the job is enqueued; rejected, or gone (expired), and the flow ends without a job.
resume(r) ==
    LET status == check_approval_status(r) IN
    /\ flows[r].pc = "suspended"
    /\ status # "pending"
    /\ IF status = "approved"
         THEN /\ flows' = [flows EXCEPT ![r].pc = "enqueued"]
              /\ stream' = xadd(stream, enqueue_fields(flows[r].job, now))
       ELSE IF status = "rejected"
         THEN /\ flows' = [flows EXCEPT ![r].pc = "rejected"]
              /\ UNCHANGED stream
       ELSE /\ flows' = [flows EXCEPT ![r].pc = "expired"]
            /\ UNCHANGED stream
    /\ last' = Event("resume", "", r, 0, 0, status)
    /\ UNCHANGED <<now, store, expiry, calls, lst, gen, wins>>
    /\ UNCHANGED <<policyVars, analyzerVars, webhookVars>>
    /\ UNCHANGED <<dead, group, workers, retries, postgres_store>>

\* The requests and principals of the flows: a read, a write and a goal that spans three
\* services, by an administrator, a standard user and a reader.
GateRequests ==
    {[actor |-> "carol", goal |-> g, dry_run |-> d] :
        g \in {"Read some data from Notion",
                "Create a new Notion page with project updates",
                "Create a GitHub issue, update the Notion page and send a Gmail"},
        d \in BOOLEAN}

GatePrincipals == {u \in Principals : u.user_id \in {"admin", "standard", "reader"}}

InitGate ==
    /\ InitApproval({"run-1"}, {1, 2})
    /\ InitAnalyzerIdle
    /\ req \in GateRequests
    /\ user \in GatePrincipals
    /\ plan = Null
    /\ pres = Null
    /\ InitWebhookIdle
    /\ flows = [r \in {"run-1"} |-> NewFlow]
    /\ stream = <<>>
    /\ dead = <<>>
    /\ group = NoGroup
    /\ workers = <<>>
    /\ retries = {}
    /\ postgres_store = <<>>

NextGate ==
    \/ \E r \in DOMAIN flows : act(r)
    \/ \E r \in DOMAIN flows : resume(r)
    \/ \E c \in DOMAIN calls, r \in DOMAIN store, request \in ApprovalRequest, u \in UserIds :
           approve_run_get(c, r, request, u)
    \/ \E c \in DOMAIN calls, r \in DOMAIN store, request \in ApprovalRequest, u \in UserIds :
           reject_run_get(c, r, request, u)
    \/ \E c \in DOMAIN calls : decide_ttl(c)
    \/ \E c \in DOMAIN calls : decide_setex(c)
    \/ Tick

SpecGate == InitGate /\ [][NextGate]_vars

(***************************************************************************)
(* The queue worker.  A worker handles one entry at a time: consume,       *)
(* process_job (status running, the agent loop), then the outcome: a       *)
(* normal return completes the job; an exception re-enqueues it after a    *)
(* delay or moves it to the dead-letter stream.  The retry delay is a      *)
(* scheduled re-append (section 4.4: not a blocking sleep), and a webhook  *)
(* is handed to the notifier, whose calls the model runs one at a time.     *)
(***************************************************************************)
MaxQueueRetries == 2    \* workers are configured with QUEUE_MAX_RETRIES in 0..MaxQueueRetries

QUEUE_RETRY_DELAY_SECONDS == 1

QueueRuns == {"run-1", "run-2"}
WebhookUrls == {"", "https://example.com/webhook"}

\* What one call of the agent loop can end in: a result that carries a status, a result
\* that carries none, or an exception.
LoopOutcomes ==
    { [kind |-> "return", result |-> [status |-> "completed"]],
      [kind |-> "return", result |-> [executed_steps |-> 0]],
      [kind |-> "raise", error |-> "Test error"] }

\* QueueWorker(redis_url, db_url, settings), idle.
QueueWorker(max_retries) ==
    [pc |-> "idle", id |-> 0, message_id |-> Null, message_data |-> Null, job |-> Null,
     QUEUE_MAX_RETRIES |-> max_retries]

\* The run store's row of a run nobody has saved, with the history of the run: the
\* saves, the agent loop's calls and ends, and the webhooks, in order.
NoRun == [status |-> Null, log |-> <<>>]

\* The job of a run: the arguments its flow hands to QueueProducer.enqueue.
QueueJob(r, webhook_url) ==
    [run_id |-> r, goal |-> "Test goal", actor |-> "test-user",
     autonomy_level |-> "L2_ExecuteNotify",
     context |-> IF r = "run-1" THEN << <<"key", "value">> >> ELSE <<>>,
     max_steps |-> 10, dry_run |-> (r = "run-2"), webhook_url |-> webhook_url]

\* The notifier of the workers: two attempts, doubling; `waiting` holds the send_*
\* calls the workers have made that have not begun.
InitQueueWebhook == hook = [WebhookNotifier(2, 2) EXCEPT !.pc = "idle"] @@ [waiting |-> <<>>]

\* The jobs of the given runs, each with one of its webhook_urls, have passed the
\* approval gate; one of the given numbers of workers, configured with one of the
\* given maxima, waits on an empty stream.
InitQueueOf(run_ids, worker_counts, maxima, urls) ==
    /\ InitApproval({"run-1"}, {1})
    /\ InitAnalyzerIdle
    /\ InitPolicyIdle
    /\ InitQueueWebhook
    /\ \E u \in [run_ids -> WebhookUrls] :
           /\ \A r \in run_ids : u[r] \in urls[r]
           /\ flows = [r \in run_ids |->
                        [pc |-> "cleared", requires_approval |-> FALSE,
                         job |-> QueueJob(r, u[r])]]
    /\ stream = <<>>
    /\ dead = <<>>
    /\ group = NoGroup
    /\ \E m \in maxima, n \in worker_counts :
           workers = [w \in 1..n |-> QueueWorker(m)]
    /\ retries = {}
    /\ postgres_store = [r \in run_ids |-> NoRun]

InitQueue == InitQueueOf(QueueRuns, {1, 2}, 0..MaxQueueRetries,
                         [r \in QueueRuns |-> WebhookUrls])

\* The flow of a run that has passed the approval gate enqueues its job.
enqueue(r) ==
    /\ flows[r].pc = "cleared"
    /\ flows' = [flows EXCEPT ![r].pc = "enqueued"]
    /\ stream' = xadd(stream, enqueue_fields(flows[r].job, now))
    /\ UNCHANGED <<dead, group, workers, retries, postgres_store>>
    /\ UNCHANGED <<approvalVars, policyVars, analyzerVars, webhookVars>>

\* QueueWorker._parse_job(message_data): the string fields back into typed values.
_parse_job(message_data) ==
    [run_id |-> message_data.run_id, goal |-> message_data.goal,
     actor |-> message_data.actor, autonomy_level |-> message_data.autonomy_level,
     context |-> json_loads(message_data.context),
     max_steps |-> int(message_data.max_steps),
     dry_run |-> (Lower(message_data.dry_run) = "true"),
     webhook_url |-> message_data.webhook_url,
     retry_count |-> int(message_data.retry_count),
     created_at |-> message_data.created_at]

\* Consumption: an idle worker reads the next entry the group has not delivered; the
\* entry stays pending for this worker until it is acknowledged.
consume(w) ==
    LET n == group.last_delivered + 1 IN
    /\ workers[w].pc = "idle"
    /\ n <= Len(stream)
    /\ group' = [group EXCEPT !.last_delivered = n,
                               !.pending = @ \cup {[id |-> n, consumer |-> w]}]
    /\ workers' = [workers EXCEPT ![w] =
           [@ EXCEPT !.pc = "received", !.id = n, !.message_id = stream[n].id,
                     !.message_data = stream[n].fields,
                     !.job = _parse_job(stream[n].fields)]]
    /\ UNCHANGED <<flows, stream, dead, retries, postgres_store>>
    /\ UNCHANGED <<approvalVars, policyVars, analyzerVars, webhookVars>>

\* QueueWorker.update_job_status(run_id, status): postgres_store.save_run.
update_job_status(ps, run_id, status) ==
    [ps EXCEPT ![run_id].status = status,
               ![run_id].log = Append(@, "save:" \o status)]

\* The history of a run gets one more event.
Logged(ps, run_id, event) == [ps EXCEPT ![run_id].log = Append(@, event)]

\* process_job, up to the call of the agent loop: the status running is saved, then
\* execute_agent_loop is invoked with the job's goal, context, max_steps and dry_run.
process_job(w) ==
    LET run_id == workers[w].job.run_id IN
    /\ workers[w].pc = "received"
    /\ postgres_store' =
           Logged(update_job_status(postgres_store, run_id, "running"), run_id, "loop:call")
    /\ workers' = [workers EXCEPT ![w].pc = "running"]
    /\ UNCHANGED <<flows, stream, dead, group, retries>>
    /\ UNCHANGED <<approvalVars, policyVars, analyzerVars, webhookVars>>

\* redis.xack: the entry is no longer pending, whoever holds it.
xack(g, id) == [g EXCEPT !.pending = {e \in @ : e.id # id}]

\* The status process_job saves after a normal return: the one embedded in the
\* result, else completed.
ResultStatus(result) ==
    IF "status" \in DOMAIN result THEN result.status ELSE "completed"

\* A variant of WebhookEvent that notifies a failure that is going to be retried too.
WebhookEventEveryFailure(outcome, webhook_url) ==
    IF webhook_url = "" THEN Null
    ELSE IF outcome = "Completed" THEN "run.completed"
    ELSE "run.failed"

\* The webhook the worker sends after an outcome of a job, if any: run.completed after
\* Completed and run.failed after DeadLettered, for a job that carries a webhook_url.
WebhookEvent(outcome, webhook_url) ==
    IF webhook_url = "" THEN Null
    ELSE IF outcome = "Completed" THEN "run.completed"
    ELSE IF outcome = "DeadLettered" THEN "run.failed"
    ELSE Null

\* The payload of send_completion_webhook and of send_failure_webhook.
WebhookPayload(event) ==
    [event |-> event, status |-> IF event = "run.completed" THEN "completed" ELSE "failed"]

\* The worker's step after an outcome: the webhook, if one is due, is handed to the
\* notifier and noted in the run's history.
Notified(h, outcome, job) ==
    LET event == WebhookEvent(outcome, job.webhook_url) IN
    IF event = Null THEN h ELSE [h EXCEPT !.waiting = Append(@, WebhookPayload(event))]

NotifiedLog(ps, outcome, job) ==
    LET event == WebhookEvent(outcome, job.webhook_url) IN
    IF event = Null THEN ps ELSE Logged(ps, job.run_id, "webhook:" \o event)

\* A variant of StatusAfterLoop that marks the run completed however the loop ended.
StatusAfterLoopAlways(outcome) ==
    IF outcome.kind = "return" THEN ResultStatus(outcome.result) ELSE "completed"

\* What process_job saves once the agent loop has ended: the result's status after a
\* normal return, nothing after an exception.
StatusAfterLoop(outcome) ==
    IF outcome.kind = "return" THEN ResultStatus(outcome.result) ELSE Null

\* The agent loop returns normally: process_job saves the status with the result, the
\* entry is acknowledged, the job is Completed and its webhook, if any, is sent.
agent_loop_returns(w, outcome) ==
    LET job == workers[w].job
        run_id == job.run_id
        saved == update_job_status(Logged(postgres_store, run_id, "loop:return"),
                                   run_id, StatusAfterLoop(outcome))
    IN  /\ workers[w].pc = "running"
        /\ outcome.kind = "return"
        /\ postgres_store' = NotifiedLog(saved, "Completed", job)
        /\ hook' = Notified(hook, "Completed", job)
        /\ group' = xack(group, workers[w].id)
        /\ workers' = [workers EXCEPT ![w] = QueueWorker(@.QUEUE_MAX_RETRIES)]
        /\ UNCHANGED <<flows, stream, dead, retries>>
        /\ UNCHANGED <<approvalVars, policyVars, analyzerVars>>

\* A variant of ShouldRetry that retries at the maximum too.
ShouldRetryInclusive(retry_count, max_retries) == retry_count <= max_retries

\* `if retry_count < max_retries`
ShouldRetry(retry_count, max_retries) == retry_count < max_retries

\* A variant of _retry_job that builds the entry again from the typed job, as
\* enqueue would, and leaves out the webhook_url.
_retry_job_no_webhook(message_data, retry_count) ==
    [message_data EXCEPT !.retry_count = str(retry_count + 1), !.webhook_url = ""]

\* QueueWorker._retry_job(message_data, retry_count): the fields re-added to the live
\* stream: those of the failed entry with retry_count + 1.
_retry_job(message_data, retry_count) ==
    [message_data EXCEPT !.retry_count = str(retry_count + 1)]

\* The delay of a retry: the configured seconds, doubling with each retry.
RetryDelay(retry_count) == QUEUE_RETRY_DELAY_SECONDS * 2 ^ retry_count

\* QueueWorker._move_to_dlq(message_id, message_data, error): the fields added to the
\* dead-letter stream: the job's snapshot, the error text and the entry's identifier.
_move_to_dlq(message_id, message_data, error) ==
    [f \in DOMAIN message_data \cup {"error", "original_message_id"} |->
        IF f = "error" THEN error
        ELSE IF f = "original_message_id" THEN message_id
        ELSE message_data[f]]

\* A variant of ScheduleRetry that acknowledges the entry and forgets the re-enqueue.
ScheduleRetryLost(scheduled, retry) == scheduled

\* The re-enqueue of a failed job is scheduled for when its delay has passed.
ScheduleRetry(scheduled, retry) == scheduled \cup {retry}

\* A variant of RetriesAfterDeadLetter that falls through to the retry.
RetriesAfterDeadLetterFallThrough(message_data, retry_count) ==
    {[fields |-> _retry_job(message_data, retry_count), delay |-> RetryDelay(retry_count),
      by |-> 0]}

\* The re-enqueues scheduled by the dead-letter branch: none.
RetriesAfterDeadLetter(message_data, retry_count) == {}

\* A variant of AfterRetry in which the worker sleeps the delay out itself.
AfterRetrySleeping(worker) ==
    [QueueWorker(worker.QUEUE_MAX_RETRIES) EXCEPT !.pc = "retry_wait"]

\* The worker once it has scheduled a retry: free for its next unit of work.
AfterRetry(worker) == QueueWorker(worker.QUEUE_MAX_RETRIES)

\* The agent loop raises.  Below the maximum the job is scheduled for re-enqueue with
\* retry_count + 1 after its delay (Retrying); at the maximum it is moved to the
\* dead-letter stream and its status saved as failed (DeadLettered), and its webhook,
\* if any, is sent.  Either way the entry is acknowledged.
agent_loop_raises(w, outcome) ==
    LET job == workers[w].job
        run_id == job.run_id
        message_data == workers[w].message_data
        raised == IF StatusAfterLoop(outcome) = Null
                    THEN Logged(postgres_store, run_id, "loop:raise")
                    ELSE update_job_status(Logged(postgres_store, run_id, "loop:raise"),
                                           run_id, StatusAfterLoop(outcome))
    IN  /\ workers[w].pc = "running"
        /\ outcome.kind = "raise"
        /\ group' = xack(group, workers[w].id)
        /\ IF ShouldRetry(job.retry_count, workers[w].QUEUE_MAX_RETRIES)
             THEN /\ retries' = ScheduleRetry(retries,
                        [fields |-> _retry_job(message_data, job.retry_count),
                         delay |-> RetryDelay(job.retry_count), by |-> w])
                  /\ postgres_store' = NotifiedLog(raised, "Retrying", job)
                  /\ hook' = Notified(hook, "Retrying", job)
                  /\ workers' = [workers EXCEPT ![w] = AfterRetry(@)]
                  /\ UNCHANGED dead
             ELSE /\ dead' = xadd(dead, _move_to_dlq(workers[w].message_id, message_data,
                                                     outcome.error))
                  /\ retries' = retries \cup
                        RetriesAfterDeadLetter(message_data, job.retry_count)
                  /\ postgres_store' =
                         NotifiedLog(update_job_status(raised, run_id, "failed"),
                                     "DeadLettered", job)
                  /\ hook' = Notified(hook, "DeadLettered", job)
                  /\ workers' = [workers EXCEPT ![w] = QueueWorker(@.QUEUE_MAX_RETRIES)]
        /\ UNCHANGED <<flows, stream>>
        /\ UNCHANGED <<approvalVars, policyVars, analyzerVars>>

\* The delay of a scheduled retry has passed: the entry is appended to the live stream,
\* at its tail.
retry_due(t) ==
    /\ t \in retries
    /\ retries' = retries \ {t}
    /\ stream' = xadd(stream, t.fields)
    /\ workers' = [w \in DOMAIN workers |->
                     IF workers[w].pc = "retry_wait" /\ t.by = w
                       THEN QueueWorker(workers[w].QUEUE_MAX_RETRIES) ELSE workers[w]]
    /\ UNCHANGED <<flows, dead, group, postgres_store>>
    /\ UNCHANGED <<approvalVars, policyVars, analyzerVars, webhookVars>>

\* The notifier begins the next send_* call a worker has made.
send_webhook ==
    /\ hook.pc = "idle"
    /\ hook.waiting # <<>>
    /\ hook' = [_send_webhook(Head(hook.waiting)) EXCEPT !.waiting = Tail(hook.waiting)]
    /\ UNCHANGED <<approvalVars, policyVars, analyzerVars, queueVars>>

\* The send_* call has returned True or False to its caller, which logs and drops it.
webhook_returned ==
    /\ hook.pc = "done"
    /\ hook' = [hook EXCEPT !.pc = "idle", !.event = Null, !.attempt = 0, !.elapsed = 0,
                            !.posts = <<>>, !.sleeps = <<>>, !.returned = Null]
    /\ UNCHANGED <<approvalVars, policyVars, analyzerVars, queueVars>>

\* The responses the webhook endpoints of the jobs give.
QueuePostOutcomes == {o \in PostOutcomes : o.status_code \in {200, 500}}

NextQueue ==
    \/ \E r \in DOMAIN flows : enqueue(r)
    \/ \E w \in DOMAIN workers : consume(w)
    \/ \E w \in DOMAIN workers : process_job(w)
    \/ \E w \in DOMAIN workers, outcome \in LoopOutcomes : agent_loop_returns(w, outcome)
    \/ \E w \in DOMAIN workers, outcome \in LoopOutcomes : agent_loop_raises(w, outcome)
    \/ \E t \in retries : retry_due(t)
    \/ send_webhook
    \/ \E outcome \in QueuePostOutcomes : Post(outcome)
    \/ Sleep
    \/ webhook_returned

SpecQueue == InitQueue /\ [][NextQueue]_vars

\* Two workers, no retry or the most, and one of the two jobs with a webhook_url.
InitFair ==
    InitQueueOf(QueueRuns, {2}, {0, MaxQueueRetries},
                [r \in QueueRuns |-> IF r = "run-1" THEN WebhookUrls \ {""} ELSE {""}])

\* Fair scheduling, in its weakest form: while a flow, a worker, a scheduled retry or
\* the notifier has a step to take, one of them takes a step in the end (an agent loop
\* that was called ends, one way or the other).  Fairness to each of them singly
\* allows fewer behaviours, so what holds here holds under it too.
FairQueue == InitFair /\ [][NextQueue]_vars /\ WF_vars(NextQueue)

(***************************************************************************)
(* SpecReclaim: the workers of SpecQueue, one of which may crash, and the  *)
(* consumer group's reclaim of an unacknowledged entry (section 5).        *)
(***************************************************************************)
MaxReclaims == 1        \* entries are reclaimed at most this many times
MaxCrashes == 1         \* at most this many workers crash

\* A worker process dies where it stands: it does nothing more, and the entry it was
\* handling stays unacknowledged.
crash(w) ==
    /\ workers[w].pc \in {"received", "running"}
    /\ Cardinality({v \in DOMAIN workers : workers[v].pc = "crashed"}) < MaxCrashes
    /\ workers' = [workers EXCEPT ![w].pc = "crashed"]
    /\ UNCHANGED <<flows, stream, dead, group, retries, postgres_store>>
    /\ UNCHANGED <<approvalVars, policyVars, analyzerVars, webhookVars>>

\* The visibility timeout of an unacknowledged entry has passed, because its consumer
\* has crashed or is slow, and an idle worker claims the entry and handles it as if it
\* had just read it.
reclaim(w, e) ==
    /\ workers[w].pc = "idle"
    /\ e \in group.pending
    /\ e.consumer # w
    /\ group.reclaims < MaxReclaims
    /\ group' = [group EXCEPT !.pending = (@ \ {e}) \cup {[id |-> e.id, consumer |-> w]},
                               !.reclaims = @ + 1]
    /\ workers' = [workers EXCEPT ![w] =
           [@ EXCEPT !.pc = "received", !.id = e.id, !.message_id = stream[e.id].id,
                     !.message_data = stream[e.id].fields,
                     !.job = _parse_job(stream[e.id].fields)]]
    /\ UNCHANGED <<flows, stream, dead, retries, postgres_store>>
    /\ UNCHANGED <<approvalVars, policyVars, analyzerVars, webhookVars>>

NextReclaim ==
    \/ \E r \in DOMAIN flows : enqueue(r)
    \/ \E w \in DOMAIN workers : consume(w)
    \/ \E w \in DOMAIN workers : process_job(w)
    \/ \E w \in DOMAIN workers, outcome \in LoopOutcomes : agent_loop_returns(w, outcome)
    \/ \E w \in DOMAIN workers, outcome \in LoopOutcomes : agent_loop_raises(w, outcome)
    \/ \E t \in retries : retry_due(t)
    \/ \E w \in DOMAIN workers : crash(w)
    \/ \E w \in DOMAIN workers, e \in group.pending : reclaim(w, e)
    \/ send_webhook
    \/ \E outcome \in QueuePostOutcomes : Post(outcome)
    \/ Sleep
    \/ webhook_returned

\* One job, two workers.
InitReclaim == InitQueueOf({"run-1"}, {2}, {0, 1}, [r \in {"run-1"} |-> WebhookUrls])

SpecReclaim == InitReclaim /\ [][NextReclaim]_vars

(***************************************************************************)
(* The claims about the /act flow and the queue.                           *)
(***************************************************************************)
\* The run_ids of the entries of a stream.
RunsIn(s) == {s[i].fields.run_id : i \in 1..Len(s)}

\* C22: a job is appended to the live stream only if the request required no approval
\* or, at that moment, the run's approval record exists with status approved: a run
\* whose record is pending, rejected or gone is not enqueued.
C22_EnqueueOnlyApproved ==
    [][\A r \in DOMAIN flows :
          (r \in RunsIn(stream') /\ r \notin RunsIn(stream))
            => \/ /\ validate_request(req, user).allowed
                  /\ ~validate_request(req, user).requires_approval
               \/ /\ Exists(store, expiry, now, r)
                  /\ store[r].status = "approved"]_vars

\* C22's case: a flow that required approval, was suspended and was enqueued once its
\* record was approved.
C22_Witness ==
    /\ last.op = "resume" /\ last.body = "approved"
    /\ flows["run-1"].requires_approval
    /\ flows["run-1"].pc = "enqueued"
    /\ "run-1" \in RunsIn(stream)
    /\ store["run-1"].status = "approved"

\* The entries of a stream that belong to a run, in stream order.
EntriesOf(s, r) == SelectSeq(s, LAMBDA e : e.fields.run_id = r)

\* How often an event occurs in the history of a run.
Count(r, event) ==
    Cardinality({i \in 1..Len(postgres_store[r].log) : postgres_store[r].log[i] = event})

Executions(r) == Count(r, "loop:call")
Failures(r) == Count(r, "loop:raise")

\* The re-enqueues of a run that are waiting out their delay.
Waiting(r) == {t \in retries : t.fields.run_id = r}

\* The state of a run's job in the worker's state machine.
JobState(r) ==
    IF r \in RunsIn(dead) THEN "DeadLettered"
    ELSE IF Count(r, "loop:return") > 0 THEN "Completed"
    ELSE IF \E w \in DOMAIN workers :
                workers[w].pc = "running" /\ workers[w].job.run_id = r THEN "Running"
    ELSE IF Waiting(r) # {} THEN "Retrying"
    ELSE IF r \in RunsIn(stream) THEN "Received"
    ELSE "New"

\* The maximum the workers are configured with.
MaxRetriesSetting == workers[1].QUEUE_MAX_RETRIES

InProgress(r) ==
    {w \in DOMAIN workers : workers[w].pc = "running" /\ workers[w].job.run_id = r}

\* The terminal outcomes a run has reached, and the webhooks sent for it.
TerminalOutcomes(r) == Count(r, "loop:return") + Len(EntriesOf(dead, r))
WebhookChains(r) == Count(r, "webhook:run.completed") + Count(r, "webhook:run.failed")

\* C25: with several workers on one stream, one of which may crash or stall so that
\* its unacknowledged entry is reclaimed, a run_id has at most one execution in
\* progress at any time, reaches at most one terminal outcome and gets at most one
\* webhook attempt chain.
C25_OneExecutionOneOutcome ==
    \A r \in DOMAIN flows :
        /\ Cardinality(InProgress(r)) <= 1
        /\ TerminalOutcomes(r) <= 1
        /\ WebhookChains(r) <= 1

Terminal == {"Completed", "DeadLettered"}

\* C26: under fair scheduling every job appended to the live stream reaches a terminal
\* outcome, Completed, or DeadLettered once its retries are spent: none stays Received,
\* Running or Retrying for ever.
C26_EveryJobTerminates ==
    \A r \in QueueRuns : (r \in RunsIn(stream)) ~> (JobState(r) \in Terminal)

\* C26's case: one job completed after a failure and a retry, the other dead-lettered
\* after three failures.
C26_Witness ==
    /\ MaxRetriesSetting = 2
    /\ JobState("run-1") = "DeadLettered" /\ Failures("run-1") = 3
    /\ JobState("run-2") = "Completed" /\ Failures("run-2") = 1

CallState(h) == [h EXCEPT !.waiting = <<>>]

\* C28: the worker sends a webhook for a job only after the job's terminal outcome and
\* only if the job carries a webhook_url: run.completed after Completed, run.failed
\* after DeadLettered, none for a failure that is retried; and no step of the
\* notifier's call, whether delivery ends in True or False, changes a job's state, its
\* retry_count or a stream.
C28_WebhookAfterTerminalOnly ==
    /\ [](\A r \in DOMAIN flows :
            LET log == postgres_store[r].log
                url == flows[r].job.webhook_url
            IN  /\ \A i \in 1..Len(log) :
                       /\ log[i] = "webhook:run.completed"
                            => i >= 3 /\ log[i - 2] = "loop:return"
                                      /\ JobState(r) = "Completed"
                       /\ log[i] = "webhook:run.failed"
                            => i >= 3 /\ log[i - 1] = "save:failed"
                                      /\ log[i - 2] = "loop:raise"
                                      /\ JobState(r) = "DeadLettered"
                /\ url = "" => WebhookChains(r) = 0
                /\ JobState(r) \notin Terminal => WebhookChains(r) = 0
                /\ (JobState(r) = "Completed" /\ url # "")
                       => Count(r, "webhook:run.completed") = 1 /\ WebhookChains(r) = 1
                /\ (JobState(r) = "DeadLettered" /\ url # "")
                       => Count(r, "webhook:run.failed") = 1 /\ WebhookChains(r) = 1)
    /\ [][CallState(hook)' # CallState(hook) => UNCHANGED queueVars]_vars

\* C28's case: the run.failed webhook of a dead-lettered job has ended in False after
\* two attempts, and the job without a webhook_url has completed without a webhook.
C28_Witness ==
    /\ hook.pc = "done" /\ hook.returned = "False" /\ hook.event = "run.failed"
    /\ Len(hook.posts) = 2
    /\ JobState("run-1") = "DeadLettered"
    /\ flows["run-2"].job.webhook_url = ""
    /\ JobState("run-2") = "Completed"

\* C29: no worker is held up by a retry delay or by a webhook backoff: a worker is
\* either free for its next unit of work or handling an entry it has not
\* acknowledged, so a job in the live stream is dequeued and run while another job
\* waits out its delay; and entries are appended at the tail and delivered in stream
\* order, so a retried job comes after the jobs enqueued before its re-append.
C29_DelaysDoNotStall ==
    /\ [](\A w \in DOMAIN workers :
            /\ workers[w].pc \in {"idle", "received", "running"}
            /\ workers[w].pc # "idle"
                 => [id |-> workers[w].id, consumer |-> w] \in group.pending)
    /\ [][/\ Len(stream') \in {Len(stream), Len(stream) + 1}
          /\ SubSeq(stream', 1, Len(stream)) = stream
          /\ group'.last_delivered \in {group.last_delivered, group.last_delivered + 1}
          /\ \A t \in retries' \ retries :
                 workers'[t.by].pc = "idle"]_vars

\* C29's case: a single worker; the first job failed and waits out its retry delay,
\* and meanwhile the job enqueued behind it has been dequeued and has completed.
C29_Witness ==
    /\ DOMAIN workers = {1}
    /\ Waiting("run-1") # {}
    /\ Len(stream) = 2
    /\ stream[1].fields.run_id = "run-1"
    /\ stream[2].fields.run_id = "run-2"
    /\ JobState("run-2") = "Completed"

\* C30: process_job saves running before it calls the agent loop, and saves completed
\* (or the result's status) only after the loop has returned normally: an execution
\* whose loop raised never marks the run completed.
C30_StatusOrder ==
    \A r \in DOMAIN flows :
        LET log == postgres_store[r].log IN
        /\ \A i \in 1..Len(log) :
               /\ log[i] = "loop:call" => i >= 2 /\ log[i - 1] = "save:running"
               /\ log[i] = "save:completed" => i >= 2 /\ log[i - 1] = "loop:return"
               /\ log[i] = "loop:return" => i < Len(log) /\ log[i + 1] = "save:completed"
               /\ log[i] = "loop:raise"
                    => i = Len(log) \/ log[i + 1] \in {"save:failed", "save:running"}
        /\ postgres_store[r].status = "completed" => Count(r, "loop:return") >= 1
        /\ InProgress(r) # {} => postgres_store[r].status = "running"

\* C30's case: an execution that raised, then one that returned: running, the call,
\* the exception, running again, the call, the return, completed.
C30_Witness ==
    postgres_store["run-1"].log =
        <<"save:running", "loop:call", "loop:raise",
          "save:running", "loop:call", "loop:return", "save:completed">>

(***************************************************************************)
(* Further claims about the risk functions of the policy guard.            *)
(***************************************************************************)
\* The keyword classes of a tool name, in the order the claim gives them, and the risk
\* of each.
KeywordClasses ==
    << [keywords |-> {"delete", "remove", "drop", "destroy", "reset"}, risk |-> 700],
       [keywords |-> {"admin", "configure", "setup", "migrate"}, risk |-> 900],
       [keywords |-> {"create", "update", "write", "send", "post", "put"}, risk |-> 300],
       [keywords |-> {"read", "get", "fetch", "search", "list", "query"}, risk |-> 100] >>

\* The risk of each capability.
CapabilityRisk == [admin |-> 900, delete |-> 700, write |-> 300, read |-> 100]

\* The largest number of a non-empty finite set.
Largest(numbers) == CHOOSE n \in numbers : \A m \in numbers : m <= n

\* C31: calculate_tool_risk gives a tool name the risk of the first keyword class it
\* matches in the order destructive, admin, write, read, then 0.05 for a `local.`
\* prefix, else 0.2, and raises that to the risk of the highest capability present.
\* With no capability, admin.reset_database and adapters_github.delete_issue score
\* 0.7, local.summarize_text 0.05, and a local tool with a read or write keyword 0.1
\* or 0.3.
C31_ToolRiskClasses ==
    last.op = "tool_risk"
      => LET name == Lower(pres.tool_name)
             matched == {i \in 1..Len(KeywordClasses) :
                            AnyKw(KeywordClasses[i].keywords, name)}
             first == CHOOSE i \in matched : \A j \in matched : i <= j
             by_name == IF matched # {} THEN KeywordClasses[first].risk
                        ELSE IF StartsWith(name, "local.") THEN 50
                        ELSE 200
             present == {c \in DOMAIN CapabilityRisk : InList(c, pres.capabilities)}
             by_capability == Largest({0} \cup {CapabilityRisk[c] : c \in present})
         IN  /\ pres.tool_risk = Max(by_name, by_capability)
             /\ pres.capabilities = <<>>
                  => /\ pres.tool_name = "admin.reset_database" => pres.tool_risk = 700
                     /\ pres.tool_name = "adapters_github.delete_issue" => pres.tool_risk = 700
                     /\ pres.tool_name = "local.summarize_text" => pres.tool_risk = 50
                     /\ pres.tool_name = "local.read_file" => pres.tool_risk = 100
                     /\ pres.tool_name = "local.write_file" => pres.tool_risk = 300

\* C31's case: a name with a destructive and an admin keyword, and no capability.
C31_Witness ==
    /\ last.op = "tool_risk"
    /\ pres.tool_name = "admin.reset_database" /\ pres.capabilities = <<>>
    /\ pres.tool_risk = 700

\* C32: the two scope-risk implementations agree on every list of scopes:
\* autonomy.calculate_scope_risk gives what PolicyGuard._calculate_scope_risk gives,
\* and both give 0.05 for the list of local.read alone.
C32_ScopeRisksAgree ==
    /\ last.op = "scope_risk"
         => /\ pres.scope_risk = _calculate_scope_risk_of_list(pres.scopes)
            /\ pres.scopes = <<"local.read">> => pres.scope_risk = 50
    /\ last.op = "guard_scope_risk"
         => /\ pres.guard_scope_risk = calculate_scope_risk(pres.scopes)
            /\ pres.scopes = <<"local.read">> => pres.guard_scope_risk = 50

(***************************************************************************)
(* Further claims about the approval store.                                *)
(***************************************************************************)
\* A record whose decision fields fit its status.
WellFormed(approval_data) ==
    LET approved == approval_data.approved_by # Null /\ approval_data.approved_at # NoTime
        rejected == approval_data.rejected_by # Null /\ approval_data.rejected_at # NoTime
        no_approver == approval_data.approved_by = Null /\ approval_data.approved_at = NoTime
        no_rejecter == approval_data.rejected_by = Null /\ approval_data.rejected_at = NoTime
    IN  /\ approval_data.status \in {"pending", "approved", "rejected"}
        /\ approval_data.status = "pending" => no_approver /\ no_rejecter
        /\ approval_data.status = "approved" => approved /\ no_rejecter
        /\ approval_data.status = "rejected" => rejected /\ no_approver
        /\ ~(approval_data.approved_by # Null /\ approval_data.rejected_by # Null)

\* C33: under any interleaving of create_pending_approval, approve_run and reject_run
\* every stored record is well-formed: a pending record has no decider and no decision
\* time, an approved record has an approver and its time and no rejecter, a rejected
\* record the converse; no record has both an approver and a rejecter.
C33_RecordsWellFormed ==
    \A r \in DOMAIN store : store[r] # NoKey => WellFormed(store[r])

\* C33's case: an approve and a reject of the same pending record were both answered
\* 200, and the record left in the store is the rejected one.
C33_Witness ==
    /\ wins["run-1"] = 2
    /\ store["run-1"].status = "rejected"
    /\ store["run-1"].rejected_by = "bob"
    /\ last.op = "reject" /\ last.code = 200

\* The fields of a record that no decide is meant to change.
FrameFields ==
    {"run_id", "actor", "goal", "autonomy_level", "risk_score", "required_scopes",
     "created_at", "expires_at"}

\* C34: a successful decide changes, in the stored record of its run_id, only the
\* status, the decider and decision time of its own kind and the reason; the record's
\* other fields and the records of the other run_ids stay as they were.
\* get_approval_status and list_pending_approvals leave the store and the key
\* expiries as they were.
C34_DecideFrame ==
    [][ /\ (last'.op \in {"approve", "reject"} /\ last'.code = 200)
             => LET r == last'.run
                    before == RedisGet(r)
                    after == store'[r]
                IN  /\ before # NoKey
                    /\ \A f \in FrameFields : after[f] = before[f]
                    /\ last'.op = "approve"
                         => /\ after.rejected_by = before.rejected_by
                            /\ after.rejected_at = before.rejected_at
                    /\ last'.op = "reject"
                         => /\ after.approved_by = before.approved_by
                            /\ after.approved_at = before.approved_at
                    /\ \A q \in DOMAIN store \ {r} :
                           store'[q] = store[q] /\ expiry'[q] = expiry[q]
        /\ last'.op \in {"status", "list"} => store' = store /\ expiry' = expiry
      ]_vars

\* The status each endpoint records.
EndpointStatus == [approve |-> "approved", reject |-> "rejected"]

\* C35: the decision recorded is fixed by the endpoint, not by the body: approve_run
\* on a pending record stores approved and reject_run stores rejected whatever the
\* body's action field says, with the calling principal as the decider; no principal,
\* the run's own actor included, is refused: a decide is answered 404 for a missing
\* key, 400 for a record that is not pending, and 200 otherwise.
C35_EndpointFixesDecision ==
    /\ \A c \in DOMAIN calls :
          calls[c].pc # "idle"
            => LET data == calls[c].data IN
               /\ data.status = EndpointStatus[calls[c].kind]
               /\ calls[c].kind = "approve"
                    => data.approved_by = calls[c].by /\ data.rejected_by = Null
               /\ calls[c].kind = "reject"
                    => data.rejected_by = calls[c].by /\ data.approved_by = Null
    /\ last.op \in DOMAIN EndpointStatus
          => /\ last.code \in {0, 200, 400, 404}
             /\ last.code = 400 => last.body \in {"approved", "rejected"}
             /\ last.code = 200
                  => /\ last.body.status = EndpointStatus[last.op]
                     /\ store[last.run].status = EndpointStatus[last.op]

\* C35's case: the run's own actor called approve_run with a body whose action is
\* reject, and the record is approved by the actor.
C35_Witness ==
    /\ last.op = "approve" /\ last.code = 200
    /\ store["run-1"].status = "approved"
    /\ store["run-1"].approved_by = store["run-1"].actor
    /\ store["run-1"].reason = "Too risky"

\* How autonomous a level is.
Rank == [L0_Ask |-> 0, L1_Draft |-> 1, L2_ExecuteNotify |-> 2, L3_ExecuteSilent |-> 3]

\* Thresholds in ascending order.
Ascending(settings) ==
    /\ settings.RISK_THRESHOLD_L3 <= settings.RISK_THRESHOLD_L2
    /\ settings.RISK_THRESHOLD_L2 <= settings.RISK_THRESHOLD_L1

\* C36: autonomy is monotone in risk: for the same principal, the same dry_run flag
\* and thresholds in ascending order, a higher risk score never gets a more
\* autonomous level than a lower one.
C36_AutonomyMonotone ==
    (last.op = "determine_settings" /\ Ascending(pres.settings))
      => \A other \in RiskScores :
            LET level == determine_autonomy_level_self(PolicyGuard(pres.settings),
                                                       req, user, other)
            IN  /\ other >= pres.risk_score => Rank[level] <= Rank[pres.autonomy_level]
                /\ other <= pres.risk_score => Rank[level] >= Rank[pres.autonomy_level]

\* C36's case: thresholds other than the defaults, two of them equal, and a risk
\* score at which the level has dropped from L3_ExecuteSilent to L1_Draft.
C36_Witness ==
    /\ last.op = "determine_settings"
    /\ pres.settings = [RISK_THRESHOLD_L3 |-> 600, RISK_THRESHOLD_L2 |-> 600,
                        RISK_THRESHOLD_L1 |-> 800]
    /\ ~InList("*", user.scopes) /\ ~req.dry_run
    /\ pres.risk_score = 600 /\ pres.autonomy_level = "L1_Draft"
    /\ determine_autonomy_level_self(PolicyGuard(pres.settings), req, user, 599)
         = "L3_ExecuteSilent"

(***************************************************************************)
(* Part E.  The project analyzer of teletran1/analyzer.py.                 *)
(*                                                                         *)
(* A Project is a record of the fields prioritize_projects reads.  The     *)
(* days since the last activity stand for last_activity, NoTime for a      *)
(* project without one; Null is a next_action of None.                     *)
(***************************************************************************)
MaxProjects == 3        \* the projects of one ProjectHealthData

Project(name, completion_percent, priority, days, is_client, has_deadline, next_action) ==
    [name |-> name, completion_percent |-> completion_percent, priority |-> priority,
     days_since_activity |-> days,
     is_client_project |-> is_client, has_deadline |-> has_deadline,
     next_action |-> next_action]

\* Project.is_near_completion
is_near_completion(project) == project.completion_percent >= 75

\* Project.is_stale
is_stale(project) ==
    project.days_since_activity # NoTime /\ project.days_since_activity > 7

\* `if project.next_action:`, false for None and for the empty string.
Truthy(text) == text # Null /\ text # ""

\* `priority_bonus.get(project.priority, 0)`
priority_bonus(priority) ==
    IF priority = "high" THEN 50 ELSE IF priority = "medium" THEN 25 ELSE 0

\* A variant of Score that gives a project near completion no more than a client
\* project with a deadline.
ScoreNearAsClient(project) ==
    (IF is_near_completion(project) THEN 500 ELSE 0)
    + (IF project.is_client_project /\ project.has_deadline THEN 500 ELSE 0)
    + (IF project.priority = "high" /\ is_stale(project) THEN 250 ELSE 0)
    + (IF Truthy(project.next_action) THEN 100 ELSE 0)
    + project.completion_percent
    + priority_bonus(project.priority)

\* The score the loop of prioritize_projects gives one project.
Score(project) ==
    (IF is_near_completion(project) THEN 1000 ELSE 0)
    + (IF project.is_client_project /\ project.has_deadline THEN 500 ELSE 0)
    + (IF project.priority = "high" /\ is_stale(project) THEN 250 ELSE 0)
    + (IF Truthy(project.next_action) THEN 100 ELSE 0)
    + project.completion_percent
    + priority_bonus(project.priority)

RECURSIVE InsertByScore(_, _)
\* One pair put into a list sorted by score descending, behind the pairs of the same
\* score: list.sort is stable, with reverse=True too.
InsertByScore(sorted, pair) ==
    IF sorted = <<>> THEN <<pair>>
    ELSE IF Head(sorted)[1] >= pair[1]
      THEN <<Head(sorted)>> \o InsertByScore(Tail(sorted), pair)
      ELSE <<pair>> \o sorted

RECURSIVE SortByScore(_)
\* `scored_projects.sort(key=lambda x: x[0], reverse=True)`
SortByScore(scored_projects) ==
    IF scored_projects = <<>> THEN <<>>
    ELSE InsertByScore(SortByScore(SubSeq(scored_projects, 1, Len(scored_projects) - 1)),
                       scored_projects[Len(scored_projects)])

\* analyzer.prioritize_projects(data), for data.projects
prioritize_projects(data_projects) ==
    LET scored_projects ==
            [i \in 1..Len(data_projects) |-> <<Score(data_projects[i]), data_projects[i]>>]
        sorted == SortByScore(scored_projects)
    IN  [i \in 1..Len(sorted) |-> sorted[i][2]]

\* The projects handed to the analyzer: for each rule the weakest project that has it
\* and the strongest that lacks it, a project a day short of stale, one whose
\* next_action is the empty string, and one with nothing.
ProjectPool ==
    { Project("Nearly", 75, "low", NoTime, FALSE, FALSE, Null),
      Project("Busy", 74, "high", 30, TRUE, TRUE, "Call the client"),
      Project("Client Near", 75, "low", NoTime, TRUE, TRUE, Null),
      Project("Stale Done", 100, "high", 30, FALSE, FALSE, "Ship it"),
      Project("Client New", 0, "low", NoTime, TRUE, TRUE, ""),
      Project("Stale Side", 74, "high", 8, FALSE, TRUE, "Write docs"),
      Project("Stale Near", 75, "high", 8, FALSE, FALSE, Null),
      Project("Fresh Done", 100, "high", 7, TRUE, FALSE, "Ship it"),
      Project("Stale New", 0, "high", 8, FALSE, FALSE, Null),
      Project("Fresh Side", 74, "high", 0, FALSE, FALSE, "Plan"),
      Project("Idle", 0, "medium", NoTime, FALSE, FALSE, Null) }

InitAnalyzer ==
    /\ InitApproval({"run-1"}, {1})
    /\ InitPolicyIdle
    /\ InitWebhookIdle
    /\ InitQueueIdle
    /\ projects \in UNION {[1..n -> ProjectPool] : n \in 0..MaxProjects}
    /\ prioritized = <<>>

\* A caller asks analyzer.prioritize_projects about its project data.
Prioritize ==
    /\ last.op = "init"
    /\ prioritized' = prioritize_projects(projects)
    /\ last' = Event("prioritize", "", Null, 0, 0, Null)
    /\ UNCHANGED <<now, store, expiry, calls, lst, gen, wins, projects>>
    /\ UNCHANGED <<policyVars, webhookVars, queueVars>>

NextAnalyzer == Prioritize

SpecAnalyzer == InitAnalyzer /\ [][NextAnalyzer]_vars

(***************************************************************************)
(* The claim about the project analyzer.                                   *)
(***************************************************************************)
\* How often a project occurs in a list.
Occurrences(project, list) == Cardinality({i \in 1..Len(list) : list[i] = project})

\* A client project with a deadline.
ClientDeadline(project) == project.is_client_project /\ project.has_deadline

\* A high-priority project that is stale.
HighStale(project) == project.priority = "high" /\ is_stale(project)

\* One project outranks another by the first of the three rules on which they differ.
Outranks(a, b) ==
    \/ is_near_completion(a) /\ ~is_near_completion(b)
    \/ /\ is_near_completion(a) = is_near_completion(b)
       /\ ClientDeadline(a) /\ ~ClientDeadline(b)
    \/ /\ is_near_completion(a) = is_near_completion(b)
       /\ ClientDeadline(a) = ClientDeadline(b)
       /\ HighStale(a) /\ ~HighStale(b)

====
